---------------------------- MODULE Spec2Model ----------------------------
(***************************************************************************)
(* A model of the quality dashboard of src/src/App.tsx: the record set     *)
(* (React state `data`), the view parameters held beside it, the handlers  *)
(* that change them and the derived analytics (the useMemo values), which  *)
(* are pure functions of that state and are written as operators.          *)
(*                                                                         *)
(* Representation of numbers.  resolutionTime is a real with at most two   *)
(* decimals in the source; the model holds it in tenths of an hour.  The   *)
(* threshold k of the slider (1 .. 3 in steps of 0.5) is held doubled      *)
(* (2 .. 6).  Means, deviations and bounds are kept exact (see Bound).     *)
(* The source computes them in IEEE doubles; the model computes them in    *)
(* exact arithmetic, so rounding error of doubles is outside the model.    *)
(***************************************************************************)
EXTENDS Integers, Sequences, FiniteSets, TLC

VARIABLES
    data,              \* useState<Defect[]>           (App.tsx:76)
    searchTerm,        \* useState('')                 (App.tsx:78)
    sortConfig,        \* useState({key, direction})   (App.tsx:79)
    showOutliersOnly,  \* useState(false)              (App.tsx:80)
    stdDevThreshold,   \* useState(2), held doubled    (App.tsx:81)
    selectedDefect,    \* useState<string|null>(null)  (App.tsx:347)
    aiAnalysis,        \* useState('')                 (App.tsx:82)
    apiKey,            \* process.env.REACT_APP_GROK_API_KEY (App.tsx:611)
    aiCalls,           \* the runAIAnalysis invocations waiting at an await
    nextCall,          \* the number of the next runAIAnalysis invocation
    requestsSent,      \* the requests handed to fetch
    unhandled,         \* the invocations that ended with an exception not caught
    created,           \* history: the record set as generateSyntheticData returned it
    lastOp             \* history: the last handler call, its arguments and the record set before it

\* the state of the AI analysis
aiVars == <<aiAnalysis, apiKey, aiCalls, nextCall, requestsSent, unhandled>>

vars == <<data, searchTerm, sortConfig, showOutliersOnly, stdDevThreshold,
          selectedDefect, created, lastOp, aiVars>>

(***************************************************************************)
(* Bounds of the model.                                                    *)
(***************************************************************************)
\* records of a session (the source generates 500)
NumRecords == 2
\* largest record set the outlier engine is checked on
MaxOutlierRecords == 3
\* largest record set the aggregations are checked on
MaxRecords == 4
\* largest record set the top-N selections are checked on
MaxTopRecords == 7
\* largest number of records of one triad
MaxGroup == 10
\* records of a session at the data table
NumViewRecords == 3
\* invocations of runAIAnalysis in a session
MaxCalls == 2
\* largest record set the heatmap is checked on
MaxHeatRecords == 8

NULL == "null"

(***************************************************************************)
(* Generic helpers.                                                        *)
(***************************************************************************)
RECURSIVE SumSeq(_)
SumSeq(s) == IF s = <<>> THEN 0 ELSE Head(s) + SumSeq(Tail(s))

(***************************************************************************)
(* The record set: generateSyntheticData (App.tsx:33-73).                  *)
(***************************************************************************)
categories == <<"Cosmetic", "Functional", "Critical">>

\* One iteration of the generator's loop: `draw` holds the values the
\* Math.random() calls selected; the remaining fields are derived or fixed.
Defect(i, draw) ==
    [id                  |-> i,
     date                |-> draw.date,
     time                |-> draw.time,
     defectName          |-> draw.defectName,
     station             |-> draw.station,
     partOfCar           |-> draw.partOfCar,
     reporter            |-> draw.reporter,
     partNumber          |-> draw.partNumber,
     severityRating      |-> draw.severityRating,
     carModel            |-> draw.carModel,
     motorType           |-> draw.motorType,
     designPackage       |-> draw.designPackage,
     productionShift     |-> draw.productionShift,
     resolutionTime      |-> draw.resolutionTime,
     rootCauseIdentified |-> draw.rootCauseIdentified,
     defectCategory      |-> categories[IF draw.severityRating > 7 THEN 3
                                        ELSE IF draw.severityRating > 4 THEN 2
                                        ELSE 1],
     flagged             |-> FALSE,
     note                |-> "",
     status              |-> ""]

\* Two draws of the generator: a critical defect (severity > 7, whose
\* resolution time the generator raises by 5 h) and a cosmetic one.
CriticalDraw ==
    [date |-> "2025-01-05", time |-> "08:15", defectName |-> "Misalignment",
     station |-> "Body Shop", partOfCar |-> "Door Panel", reporter |-> "John Smith",
     partNumber |-> "BMW-1000", severityRating |-> 9, carModel |-> "Base",
     motorType |-> "Long Range", designPackage |-> "Offroad",
     productionShift |-> "Morning", resolutionTime |-> 80,
     rootCauseIdentified |-> "Yes"]

CosmeticDraw ==
    [date |-> "2025-02-11", time |-> "21:40", defectName |-> "Paint Defect",
     station |-> "Paint Shop", partOfCar |-> "Windshield", reporter |-> "Lisa Chen",
     partNumber |-> "BMW-4711", severityRating |-> 3, carModel |-> "Long",
     motorType |-> "High Performance", designPackage |-> "Race",
     productionShift |-> "Night", resolutionTime |-> 25,
     rootCauseIdentified |-> "No"]

\* the draws a session starts from
SessionDraws == {CriticalDraw, CosmeticDraw}

\* The draws the aggregations are checked on: three defect names, two
\* stations, two parts, the three shifts, two models, two reporters and
\* three dates, with two draws of one (defect, station, part) triad.
AnalyticsDraws ==
    { CriticalDraw,
      CosmeticDraw,
      [CriticalDraw EXCEPT !.partOfCar = "Windshield", !.reporter = "Lisa Chen",
                           !.productionShift = "Afternoon", !.severityRating = 6,
                           !.resolutionTime = 40, !.rootCauseIdentified = "No"],
      [CosmeticDraw EXCEPT !.station = "Body Shop", !.partOfCar = "Door Panel",
                           !.reporter = "John Smith", !.date = "2025-03-20",
                           !.productionShift = "Morning", !.severityRating = 5,
                           !.resolutionTime = 115, !.rootCauseIdentified = "Yes"],
      [CosmeticDraw EXCEPT !.defectName = "Seal Defect", !.partOfCar = "Door Panel",
                           !.reporter = "John Smith", !.carModel = "Base",
                           !.severityRating = 8, !.resolutionTime = 95],
      [CriticalDraw EXCEPT !.date = "2025-03-20", !.productionShift = "Night",
                           !.carModel = "Long", !.severityRating = 4,
                           !.resolutionTime = 5, !.rootCauseIdentified = "No"] }

\* The draws the outlier engine is checked on, as <<severity, resolution
\* time>>.  The engine is a function of any record set, so the two vary
\* independently of the generator's coupling: severities below (2, 7), at
\* (8) and above (9) the static threshold, resolution times of 1 h, 2 h,
\* 3 h (three equally spaced values) and 20 h.
OutlierMeasures ==
    { <<9, 10>>, <<2, 20>>, <<9, 200>>, <<7, 20>>, <<8, 20>>,
      <<2, 10>>, <<2, 30>>, <<7, 200>> }
OutlierDraws ==
    { [CosmeticDraw EXCEPT !.severityRating = m[1], !.resolutionTime = m[2]] :
        m \in OutlierMeasures }

\* generateSyntheticData with n iterations and the draws taken from D
generateSyntheticData(n, D) ==
    { [i \in 1..n |-> Defect(i, pick[i])] : pick \in [1..n -> D] }

(***************************************************************************)
(* Outlier calculation (App.tsx:85-124).                                   *)
(*                                                                         *)
(* A number of the engine is held exactly as                               *)
(*     num/den + (half/2) * sqrt(vnum/vden)                                *)
(* in the record [num, den, half, vnum, vden].  den = 0 or vden = 0 is the *)
(* result of 0/0, NaN, with which every comparison is false.               *)
(***************************************************************************)
IsNaN(b) == b.den = 0 \/ b.vden = 0

\* x > b for an integer x.  With a = 2(x*den - num) and c = half*den this is
\* a > c*sqrt(vnum/vden), decided on the squares.
GreaterThan(x, b) ==
    LET a == 2 * (x * b.den - b.num)
        c == b.half * b.den
        l == a * a * b.vden
        r == c * c * b.vnum
    IN  /\ ~IsNaN(b)
        /\ IF c >= 0 THEN a > 0 /\ l > r
                     ELSE a > 0 \/ l < r

\* x < b for an integer x
LessThan(x, b) ==
    LET a == 2 * (x * b.den - b.num)
        c == b.half * b.den
        l == a * a * b.vden
        r == c * c * b.vnum
    IN  /\ ~IsNaN(b)
        /\ IF c >= 0 THEN a < 0 \/ l < r
                     ELSE a < 0 /\ l > r

\* App.tsx:97-107 with the sample variance (denominator N - 1)
metricBoundsSample(values, k) ==
    LET n    == Len(values)
        sum  == SumSeq(values)
        sqs  == SumSeq([i \in 1..n |-> (n * values[i] - sum) * (n * values[i] - sum)])
        base == [num |-> sum, den |-> n, half |-> 0, vnum |-> sqs, vden |-> n * n * (n - 1)]
    IN  [mean       |-> base,
         stdDev     |-> [base EXCEPT !.num = 0, !.den = 1, !.half = 2],
         lowerBound |-> [base EXCEPT !.half = 0 - k],
         upperBound |-> [base EXCEPT !.half = k]]

\* App.tsx:97-107 with the two bounds exchanged
metricBoundsSwapped(values, k) ==
    LET n    == Len(values)
        sum  == SumSeq(values)
        sqs  == SumSeq([i \in 1..n |-> (n * values[i] - sum) * (n * values[i] - sum)])
        base == [num |-> sum, den |-> n, half |-> 0, vnum |-> sqs, vden |-> n * n * n]
    IN  [mean       |-> base,
         stdDev     |-> [base EXCEPT !.num = 0, !.den = 1, !.half = 2],
         lowerBound |-> [base EXCEPT !.half = k],
         upperBound |-> [base EXCEPT !.half = 0 - k]]

\* App.tsx:97-107, the body of metrics.forEach for one metric; k is the
\* doubled threshold.
\*   mean     = sum / n
\*   variance = SUM (b - mean)^2 / n, and (b - mean)^2 = (n*b - sum)^2 / n^2,
\*              so variance = sqs / n^3
\*   stdDev   = sqrt(variance)
\*   bounds   = mean -/+ (k/2) * stdDev
metricBounds(values, k) ==
    LET n    == Len(values)
        sum  == SumSeq(values)
        sqs  == SumSeq([i \in 1..n |-> (n * values[i] - sum) * (n * values[i] - sum)])
        base == [num |-> sum, den |-> n, half |-> 0, vnum |-> sqs, vden |-> n * n * n]
    IN  [mean       |-> base,
         stdDev     |-> [base EXCEPT !.num = 0, !.den = 1, !.half = 2],
         lowerBound |-> [base EXCEPT !.half = 0 - k],
         upperBound |-> [base EXCEPT !.half = k]]

\* App.tsx:85-112
calculateOutliers(recs, k) ==
    [resolutionTime |-> metricBounds([i \in 1..Len(recs) |-> recs[i].resolutionTime], k),
     severityRating |-> metricBounds([i \in 1..Len(recs) |-> recs[i].severityRating], k),
     staticCritical |-> 8]

\* isOutlier with the severity tested against its lower bound too
isOutlierSymmetric(record, outliers) ==
    LET resTime == outliers.resolutionTime
        sevTime == outliers.severityRating
    IN  \/ GreaterThan(record.resolutionTime, resTime.upperBound)
        \/ LessThan(record.resolutionTime, resTime.lowerBound)
        \/ GreaterThan(record.severityRating, sevTime.upperBound)
        \/ LessThan(record.severityRating, sevTime.lowerBound)
        \/ record.severityRating >= outliers.staticCritical

\* isOutlier with the static threshold exclusive
isOutlierExclusive(record, outliers) ==
    LET resTime == outliers.resolutionTime
        sevTime == outliers.severityRating
    IN  \/ GreaterThan(record.resolutionTime, resTime.upperBound)
        \/ LessThan(record.resolutionTime, resTime.lowerBound)
        \/ GreaterThan(record.severityRating, sevTime.upperBound)
        \/ record.severityRating > outliers.staticCritical

\* App.tsx:114-124; `outliers` is the value of calculateOutliers
isOutlier(record, outliers) ==
    LET resTime == outliers.resolutionTime
        sevTime == outliers.severityRating
    IN  \/ GreaterThan(record.resolutionTime, resTime.upperBound)
        \/ LessThan(record.resolutionTime, resTime.lowerBound)
        \/ GreaterThan(record.severityRating, sevTime.upperBound)
        \/ record.severityRating >= outliers.staticCritical

\* the reasons with the statistical severity code left to the records
\* below the static threshold
reasonsOneSeverityCode(row, outliers) ==
    (IF GreaterThan(row.resolutionTime, outliers.resolutionTime.upperBound)
     THEN <<"High Res Time">> ELSE <<>>)
    \o (IF LessThan(row.resolutionTime, outliers.resolutionTime.lowerBound)
        THEN <<"Low Res Time">> ELSE <<>>)
    \o (IF row.severityRating >= 8 THEN <<"Critical Severity">>
        ELSE IF GreaterThan(row.severityRating, outliers.severityRating.upperBound)
        THEN <<"High Severity">> ELSE <<>>)

\* App.tsx:1122-1126: the reasons of a row of the outlier table, in the
\* order of the push calls
reasons(row, outliers) ==
    (IF GreaterThan(row.resolutionTime, outliers.resolutionTime.upperBound)
     THEN <<"High Res Time">> ELSE <<>>)
    \o (IF LessThan(row.resolutionTime, outliers.resolutionTime.lowerBound)
        THEN <<"Low Res Time">> ELSE <<>>)
    \o (IF row.severityRating >= 8 THEN <<"Critical Severity">> ELSE <<>>)
    \o (IF GreaterThan(row.severityRating, outliers.severityRating.upperBound)
        THEN <<"High Severity">> ELSE <<>>)

\* App.tsx:1121: the rows of the outlier table
outlierRows(recs, outliers) ==
    LET all == SelectSeq(recs, LAMBDA d : isOutlier(d, outliers))
    IN  [i \in 1..(IF Len(all) < 20 THEN Len(all) ELSE 20) |-> all[i]]

(***************************************************************************)
(* Aggregations (App.tsx:127-343).                                         *)
(*                                                                         *)
(* A JavaScript object filled key by key is held as the sequence of its    *)
(* entries in insertion order, which is the order of Object.entries,       *)
(* Object.keys and Object.values for keys that are not integers.           *)
(* Numbers rounded by toFixed(2) are held in hundredths.                   *)
(***************************************************************************)
\* the position of a key among the entries, 0 when the object lacks it
indexOfKey(acc, key) ==
    IF \E j \in 1..Len(acc) : acc[j].key = key
    THEN CHOOSE j \in 1..Len(acc) : acc[j].key = key
    ELSE 0

\* the counting step with an assignment in place of the increment
countIntoAssigns(acc, key) ==
    LET j == indexOfKey(acc, key)
    IN  IF j = 0 THEN Append(acc, [key |-> key, count |-> 1])
        ELSE [acc EXCEPT ![j].count = 1]

\* acc[key] = (acc[key] || 0) + 1   (App.tsx:129, 134, 157, 176, 207, 208)
countInto(acc, key) ==
    LET j == indexOfKey(acc, key)
    IN  IF j = 0 THEN Append(acc, [key |-> key, count |-> 1])
        ELSE [acc EXCEPT ![j].count = @ + 1]

\* data.reduce of the counting step over the keys of the records, in order
RECURSIVE countBy(_)
countBy(keys) ==
    IF keys = <<>> THEN <<>>
    ELSE countInto(countBy(SubSeq(keys, 1, Len(keys) - 1)), keys[Len(keys)])

\* The accumulating step of the grouped aggregates: a new key starts a
\* group at zero, then the group takes the record in (App.tsx:143-147,
\* 162-166, 309-323).  Pushing a value to a list that is summed later is
\* held as adding it to a sum.
addInto(acc, key, d) ==
    LET j    == indexOfKey(acc, key)
        acc0 == IF j = 0
                THEN Append(acc, [key |-> key, count |-> 0, sumSeverity |-> 0,
                                  sumResH |-> 0, rootCauseNo |-> 0])
                ELSE acc
        p    == IF j = 0 THEN Len(acc0) ELSE j
    IN  [acc0 EXCEPT ![p].count       = @ + 1,
                     ![p].sumSeverity = @ + d.severityRating,
                     ![p].sumResH     = @ + d.resolutionTime,
                     ![p].rootCauseNo = @ + (IF d.rootCauseIdentified = "No" THEN 1 ELSE 0)]

\* the loop of the accumulating step over the records, keys[i] the key of recs[i]
RECURSIVE sumBy(_, _)
sumBy(keys, recs) ==
    IF recs = <<>> THEN <<>>
    ELSE addInto(sumBy(SubSeq(keys, 1, Len(keys) - 1), SubSeq(recs, 1, Len(recs) - 1)),
                 keys[Len(keys)], recs[Len(recs)])

\* a sort that puts elements of equal rank in the reverse of their order
sortReversesTies(s, rank) ==
    LET n      == Len(s)
        pos(i) == 1 + Cardinality({j \in 1..n : \/ rank[j] < rank[i]
                                               \/ (rank[j] = rank[i] /\ j > i)})
    IN  [p \in 1..n |-> s[CHOOSE i \in 1..n : pos(i) = p]]

\* Array.prototype.sort with a comparator that is the difference of the
\* ranks of its arguments: ascending by rank[i], the sort being stable,
\* elements of equal rank keep their order.
sort(s, rank) ==
    LET n      == Len(s)
        pos(i) == 1 + Cardinality({j \in 1..n : \/ rank[j] < rank[i]
                                               \/ (rank[j] = rank[i] /\ j < i)})
    IN  [p \in 1..n |-> s[CHOOSE i \in 1..n : pos(i) = p]]

\* Array.prototype.slice(0, n)
slice(s, n) == SubSeq(s, 1, IF Len(s) < n THEN Len(s) ELSE n)

\* parseFloat((num / den).toFixed(2)) for num >= 0, den > 0, in hundredths:
\* the nearest hundredth, a half rounding up
toFixed2(num, den) == (200 * num + den) \div (2 * den)

\* the order of localeCompare on the ISO dates of the draws: the day of the year
dayOfYear(date) ==
    CASE date = "2025-01-05" -> 5
      [] date = "2025-02-11" -> 42
      [] date = "2025-03-20" -> 79

\* the keys of the records by one field
fieldOf(recs, field) == [i \in 1..Len(recs) |-> recs[i][field]]

\* App.tsx:133-136
defectsByType(recs) == countBy(fieldOf(recs, "defectName"))

\* App.tsx:127-200; resolutionTime is in tenths of an hour, so the average
\* time in hours is the sum over 10 * count
analytics(recs) ==
    LET defectsByModel      == countBy(fieldOf(recs, "carModel"))
        byType              == defectsByType(recs)
        reporterPerformance == sumBy(fieldOf(recs, "reporter"), recs)
        defectsByDate       == countBy(fieldOf(recs, "date"))
        shiftAnalysis       == sumBy(fieldOf(recs, "productionShift"), recs)
        stationDefects      == countBy(fieldOf(recs, "station"))
    IN  [defectsByModel |->
            [i \in 1..Len(defectsByModel) |->
                [name |-> defectsByModel[i].key, value |-> defectsByModel[i].count]],
         top5Defects |->
            slice(sort([i \in 1..Len(byType) |-> <<byType[i].key, byType[i].count>>],
                       [i \in 1..Len(byType) |-> 0 - byType[i].count]), 5),
         reporterPerformance |->
            [i \in 1..Len(reporterPerformance) |->
                [name    |-> reporterPerformance[i].key,
                 avgTime |-> toFixed2(reporterPerformance[i].sumResH,
                                      10 * reporterPerformance[i].count),
                 total   |-> reporterPerformance[i].count]],
         defectsByDate |->
            LET sorted == sort(defectsByDate,
                               [i \in 1..Len(defectsByDate) |-> dayOfYear(defectsByDate[i].key)])
            IN  [i \in 1..Len(sorted) |-> [date |-> sorted[i].key, count |-> sorted[i].count]],
         shiftAnalysis |->
            [i \in 1..Len(shiftAnalysis) |->
                [shift       |-> shiftAnalysis[i].key,
                 count       |-> shiftAnalysis[i].count,
                 avgSeverity |-> toFixed2(shiftAnalysis[i].sumSeverity,
                                          shiftAnalysis[i].count)]],
         stationDefects |->
            [i \in 1..Len(stationDefects) |->
                [station |-> stationDefects[i].key, count |-> stationDefects[i].count]],
         totalDefects    |-> Len(recs),
         criticalDefects |-> Len(SelectSeq(recs, LAMBDA d : d.severityRating >= 8))]

\* the running sum of a Pareto row taken over the ranks before it only
cumCountExclusive(arr, i) == SumSeq([j \in 1..(i - 1) |-> arr[j].count])

\* arr.slice(0, i + 1).reduce((s, r) => s + r.count, 0) for the row at
\* position i, counted from 1   (App.tsx:217, 229)
cumCount(arr, i) == SumSeq([j \in 1..i |-> arr[j].count])

\* App.tsx:213-223 and 225-235: the rows of one Pareto list from the counts
\* of a dimension; pct and cumPct in hundredths of a percent
paretoRows(counts, total) ==
    LET arr == sort(counts, [i \in 1..Len(counts) |-> 0 - counts[i].count])
    IN  [i \in 1..Len(arr) |->
            [name   |-> arr[i].key,
             count  |-> arr[i].count,
             pct    |-> toFixed2(arr[i].count * 100, total),
             cumPct |-> toFixed2(cumCount(arr, i) * 100, total)]]

\* App.tsx:202-238; the rows of partsPareto carry their key as `part`
pareto(recs) ==
    LET countByDefect == countBy(fieldOf(recs, "defectName"))
        countByPart   == countBy(fieldOf(recs, "partOfCar"))
        total         == IF Len(recs) = 0 THEN 1 ELSE Len(recs)
        parts         == paretoRows(countByPart, total)
    IN  [defectsPareto |-> paretoRows(countByDefect, total),
         partsPareto   |-> [i \in 1..Len(parts) |->
                               [part   |-> parts[i].name,
                                count  |-> parts[i].count,
                                pct    |-> parts[i].pct,
                                cumPct |-> parts[i].cumPct]]]

\* the key of a triad without the part of the car
keyOfDefectStation(d) == <<d.defectName, d.station, "">>

\* App.tsx:295: the key of a triad.  The source joins the three names with
\* "|||"; no name of the generator contains that text, so the join is
\* one-to-one and the key is held as the triple.
keyOf(d) == <<d.defectName, d.station, d.partOfCar>>

\* the score with the severity taken on its scale of 10 unscaled:
\* count * (0.6 + 0.4 * avgSeverity) + 0.2 * avgResH
scoreUnscaled(count, avgSeverity, avgResH) ==
    toFixed2(count * (150 + avgSeverity) + 50 * avgResH, 250)

\* App.tsx:335; averages and score in hundredths.  With avgSeverity = s/100
\* and avgResH = r/100,
\*   count * (0.6 + 0.4 * (avgSeverity / 10)) + 0.2 * avgResH
\*     = (count * (1500 + s) + 5 * r) / 2500
score(count, avgSeverity, avgResH) ==
    toFixed2(count * (1500 + avgSeverity) + 5 * avgResH, 2500)

\* App.tsx:293-343; averages in hundredths
triads(recs) ==
    LET map  == sumBy([i \in 1..Len(recs) |-> keyOf(recs[i])], recs)
        rows == [i \in 1..Len(map) |->
                    [defectName  |-> map[i].key[1],
                     station     |-> map[i].key[2],
                     partOfCar   |-> map[i].key[3],
                     count       |-> map[i].count,
                     sumSeverity |-> map[i].sumSeverity,
                     sumResH     |-> map[i].sumResH,
                     rootCauseNo |-> map[i].rootCauseNo,
                     avgSeverity |-> toFixed2(map[i].sumSeverity, map[i].count),
                     avgResH     |-> toFixed2(map[i].sumResH, 10 * map[i].count)]]
        withScore == [i \in 1..Len(rows) |->
                        [defectName  |-> rows[i].defectName,
                         station     |-> rows[i].station,
                         partOfCar   |-> rows[i].partOfCar,
                         count       |-> rows[i].count,
                         sumSeverity |-> rows[i].sumSeverity,
                         sumResH     |-> rows[i].sumResH,
                         rootCauseNo |-> rows[i].rootCauseNo,
                         avgSeverity |-> rows[i].avgSeverity,
                         avgResH     |-> rows[i].avgResH,
                         score       |-> score(rows[i].count, rows[i].avgSeverity,
                                                   rows[i].avgResH)]]
    IN  [byCount |-> sort(withScore, [i \in 1..Len(withScore) |-> 0 - withScore[i].count]),
         byScore |-> sort(withScore, [i \in 1..Len(withScore) |-> 0 - withScore[i].score])]

(***************************************************************************)
(* Heatmap (App.tsx:240-281).                                              *)
(***************************************************************************)
\* Array.from(new Set(keys)): the distinct keys in the order first seen
unique(keys) ==
    LET counts == countBy(keys)
    IN  [i \in 1..Len(counts) |-> counts[i].key]

\* Array.prototype.includes
includes(s, x) == \E i \in 1..Len(s) : s[i] = x

\* App.tsx:242-247: the names of the N most frequent defects
topDefectNames(recs, n) ==
    LET countsByDefect == countBy(fieldOf(recs, "defectName"))
        sorted == slice(sort(countsByDefect,
                             [i \in 1..Len(countsByDefect) |-> 0 - countsByDefect[i].count]), n)
    IN  [i \in 1..Len(sorted) |-> sorted[i].key]

\* App.tsx:253-259: defect -> station -> shift -> count over the records of
\* the top defects, held as the counts of the triples
cube(recs, topN) ==
    LET kept == SelectSeq(recs, LAMBDA d : includes(topN, d.defectName))
    IN  countBy([i \in 1..Len(kept) |->
                    <<kept[i].defectName, kept[i].station, kept[i].productionShift>>])

\* the cell of the cube read as 1 when it is present
cellPresent(c, defect, st, sh) ==
    IF indexOfKey(c, <<defect, st, sh>>) = 0 THEN 0 ELSE 1

\* App.tsx:273: cube[defect]?.[st]?.[sh] ?? 0
cell(c, defect, st, sh) ==
    LET j == indexOfKey(c, <<defect, st, sh>>)
    IN  IF j = 0 THEN 0 ELSE c[j].count

\* the largest count of the rows without the floor of 1
maxOfUnguarded(rows) ==
    IF rows = <<>> THEN 0
    ELSE CHOOSE m \in {rows[i].count : i \in 1..Len(rows)} :
            \A i \in 1..Len(rows) : rows[i].count <= m

\* Math.max over the counts of the rows and 1
maxOf(rows) ==
    IF \E i \in 1..Len(rows) : rows[i].count > 1
    THEN CHOOSE m \in {rows[i].count : i \in 1..Len(rows)} :
            \A i \in 1..Len(rows) : rows[i].count <= m
    ELSE 1

\* the heatmap with one row per cell of the cube, the cells without a record
\* left out
heatmapPresentCells(recs) ==
    LET topN == topDefectNames(recs, 6)
        c    == cube(recs, topN)
        rows == [p \in 1..Len(c) |->
                    [defectName |-> c[p].key[1], station |-> c[p].key[2],
                     shift |-> c[p].key[3], count |-> c[p].count]]
    IN  [topDefects |-> topN,
         stations   |-> unique(fieldOf(recs, "station")),
         shifts     |-> unique(fieldOf(recs, "productionShift")),
         rows       |-> rows, maxCount |-> maxOf(rows)]

\* App.tsx:240-281: the rows in the order of the three nested loops
heatmap(recs) ==
    LET topN     == topDefectNames(recs, 6)
        stations == unique(fieldOf(recs, "station"))
        shifts   == unique(fieldOf(recs, "productionShift"))
        c        == cube(recs, topN)
        S        == Len(stations)
        H        == Len(shifts)
        rows     == [p \in 1..(Len(topN) * S * H) |->
                        LET defect == topN[((p - 1) \div (S * H)) + 1]
                            st     == stations[(((p - 1) \div H) % S) + 1]
                            sh     == shifts[((p - 1) % H) + 1]
                        IN  [defectName |-> defect, station |-> st, shift |-> sh,
                             count |-> cell(c, defect, st, sh)]]
    IN  [topDefects |-> topN, stations |-> stations, shifts |-> shifts,
         rows |-> rows, maxCount |-> maxOf(rows)]

(***************************************************************************)
(* Recurrence explorer and quick actions (App.tsx:349-523).                *)
(***************************************************************************)
\* the shifts of the explorer with another name for the night shift
explorerShiftsEvening == <<"Morning", "Afternoon", "Evening">>

\* App.tsx:387, 438
explorerShifts == <<"Morning", "Afternoon", "Night">>

\* the value returned for "no result" (null): a result without a target
NoResult == [target |-> NULL]

\* App.tsx:352-354: the first entry of the counts sorted by descending
\* count, or null
defaultTarget(recs) ==
    LET counts == countBy(fieldOf(recs, "defectName"))
        sorted == sort(counts, [i \in 1..Len(counts) |-> 0 - counts[i].count])
    IN  IF Len(sorted) = 0 THEN NULL ELSE sorted[1].key

\* App.tsx:376-384, 428-436: the groups of one dimension as rows, sorted by
\* descending count, the first five
topGroups(groups) ==
    LET rows == [i \in 1..Len(groups) |->
                    [name    |-> groups[i].key,
                     count   |-> groups[i].count,
                     avgResH |-> toFixed2(groups[i].sumResH, 10 * groups[i].count),
                     avgSev  |-> toFixed2(groups[i].sumSeverity, groups[i].count)]]
    IN  slice(sort(rows, [i \in 1..Len(rows) |-> 0 - rows[i].count]), 5)

\* App.tsx:388-393, 439-444: one entry per shift of the list, zero for a
\* shift without records
shiftStats(byShift) ==
    [i \in 1..Len(explorerShifts) |->
        LET j == indexOfKey(byShift, explorerShifts[i])
        IN  IF j = 0
            THEN [shift |-> explorerShifts[i], count |-> 0, avgSev |-> 0, avgResH |-> 0]
            ELSE [shift   |-> explorerShifts[i],
                  count   |-> byShift[j].count,
                  avgSev  |-> toFixed2(byShift[j].sumSeverity, byShift[j].count),
                  avgResH |-> toFixed2(byShift[j].sumResH, 10 * byShift[j].count)]]

\* the pair with the difference taken from the first shift to the second
pairFromMinusTo(a, b) ==
    [pair |-> <<a.shift, b.shift>>, deltaCount |-> a.count - b.count, from |-> a, to |-> b]

\* App.tsx:395, 445
pair(a, b) ==
    [pair |-> <<a.shift, b.shift>>, deltaCount |-> b.count - a.count, from |-> a, to |-> b]

\* Math.abs
abs(x) == IF x < 0 THEN 0 - x ELSE x

\* App.tsx:396-403, 446-453
deltas(stats) ==
    LET list == <<pair(stats[1], stats[2]), pair(stats[2], stats[3]),
                  pair(stats[1], stats[3]), pair(stats[3], stats[1]),
                  pair(stats[2], stats[1]), pair(stats[3], stats[2])>>
    IN  sort(list, [i \in 1..Len(list) |-> 0 - abs(list[i].deltaCount)])

\* App.tsx:359-407 and 410-457: the two branches run the same computation
\* on their target
explore(recs, target) ==
    LET rows      == SelectSeq(recs, LAMBDA d : d.defectName = target)
        byStation == sumBy(fieldOf(rows, "station"), rows)
        byPart    == sumBy(fieldOf(rows, "partOfCar"), rows)
        byShift   == sumBy(fieldOf(rows, "productionShift"), rows)
        stats     == shiftStats(byShift)
    IN  [target      |-> target,
         topStations |-> topGroups(byStation),
         topParts    |-> topGroups(byPart),
         shiftStats  |-> stats,
         deltas      |-> deltas(stats),
         samples     |-> slice(rows, 20)]

\* App.tsx:349-458
recurrenceExplorer(recs, selected) ==
    IF selected = NULL
    THEN LET top == defaultTarget(recs)
         IN  IF top = NULL THEN NoResult ELSE explore(recs, top)
    ELSE explore(recs, selected)

\* App.tsx:485-498, 507-520: the candidates of one map.  With the sums of a
\* group, count * (0.6 + 0.4 * (avgSev / 10)) + 0.2 * avgResH is
\* (30 * count^2 + 2 * sumSev * count + sumResH) / (50 * count), the time
\* being in tenths of an hour; the label and the filter are held as the
\* lists of their parts.
candidates(groups, target) ==
    [i \in 1..Len(groups) |->
        [label   |-> groups[i].key,
         filter  |-> <<target>> \o groups[i].key,
         count   |-> groups[i].count,
         avgSev  |-> toFixed2(groups[i].sumSeverity, groups[i].count),
         avgResH |-> toFixed2(groups[i].sumResH, 10 * groups[i].count),
         score   |-> toFixed2(30 * groups[i].count * groups[i].count
                                + 2 * groups[i].sumSeverity * groups[i].count
                                + groups[i].sumResH,
                              50 * groups[i].count)]]

\* the quick actions of the most frequent defect, whatever the target of the
\* explorer
quickActionsOfDefault(recs, explorer) ==
    IF explorer.target = NULL THEN <<>>
    ELSE LET target == defaultTarget(recs)
             rows   == SelectSeq(recs, LAMBDA d : d.defectName = target)
             ssMap  == sumBy([i \in 1..Len(rows) |->
                                 <<rows[i].station, rows[i].productionShift>>], rows)
             spMap  == sumBy([i \in 1..Len(rows) |->
                                 <<rows[i].station, rows[i].partOfCar>>], rows)
             cands  == candidates(ssMap, target) \o candidates(spMap, target)
         IN  slice(sort(cands, [i \in 1..Len(cands) |-> 0 - cands[i].score]), 3)

\* App.tsx:460-523
quickActions(recs, explorer) ==
    IF explorer.target = NULL THEN <<>>
    ELSE LET target == explorer.target
             rows   == SelectSeq(recs, LAMBDA d : d.defectName = target)
             ssMap  == sumBy([i \in 1..Len(rows) |->
                                 <<rows[i].station, rows[i].productionShift>>], rows)
             spMap  == sumBy([i \in 1..Len(rows) |->
                                 <<rows[i].station, rows[i].partOfCar>>], rows)
             cands  == candidates(ssMap, target) \o candidates(spMap, target)
         IN  slice(sort(cands, [i \in 1..Len(cands) |-> 0 - cands[i].score]), 3)

\* App.tsx:492, 514, 1041, 1052: the template literal `${a} ${b}` or
\* `${a} ${b} ${c}`, the texts of a list joined by one space
RECURSIVE filterString(_)
filterString(parts) ==
    IF Len(parts) = 1 THEN parts[1]
    ELSE parts[1] \o " " \o filterString(Tail(parts))

(***************************************************************************)
(* Strings (String.prototype.toString, toLowerCase, includes, <).          *)
(*                                                                         *)
(* A text is the sequence of its characters.  The records hold their texts *)
(* as strings; `chars` gives the characters of every text of the draws,    *)
(* of the handlers and of the search box.                                  *)
(***************************************************************************)
\* the characters of code 32 .. 90, space to Z, in the order of their codes
Ascii ==
    <<" ", "!", "\"", "#", "$", "%", "&", "'", "(", ")", "*", "+", ",",
      "-", ".", "/", "0", "1", "2", "3", "4", "5", "6", "7", "8", "9", ":",
      ";", "<", "=", ">", "?", "@", "A", "B", "C", "D", "E", "F", "G", "H",
      "I", "J", "K", "L", "M", "N", "O", "P", "Q", "R", "S", "T", "U", "V",
      "W", "X", "Y", "Z">>

\* the characters of code 97 .. 122, a to z
LowerCase ==
    <<"a", "b", "c", "d", "e", "f", "g", "h", "i", "j", "k", "l", "m", "n",
      "o", "p", "q", "r", "s", "t", "u", "v", "w", "x", "y", "z">>

\* the UTF-16 code of a character
codeOf ==
    [c \in {Ascii[i] : i \in 1..Len(Ascii)} \cup {LowerCase[i] : i \in 1..Len(LowerCase)} |->
        IF \E i \in 1..Len(Ascii) : Ascii[i] = c
        THEN 31 + (CHOOSE i \in 1..Len(Ascii) : Ascii[i] = c)
        ELSE 96 + (CHOOSE i \in 1..Len(LowerCase) : LowerCase[i] = c)]

\* the characters of a text
chars(s) ==
    CASE s = "" -> <<>>
      [] s = "2025-01-05" ->
           <<"2", "0", "2", "5", "-", "0", "1", "-", "0", "5">>
      [] s = "08:15" -> <<"0", "8", ":", "1", "5">>
      [] s = "Misalignment" ->
           <<"M", "i", "s", "a", "l", "i", "g", "n", "m", "e", "n", "t">>
      [] s = "Body Shop" -> <<"B", "o", "d", "y", " ", "S", "h", "o", "p">>
      [] s = "Door Panel" ->
           <<"D", "o", "o", "r", " ", "P", "a", "n", "e", "l">>
      [] s = "John Smith" ->
           <<"J", "o", "h", "n", " ", "S", "m", "i", "t", "h">>
      [] s = "BMW-1000" -> <<"B", "M", "W", "-", "1", "0", "0", "0">>
      [] s = "Base" -> <<"B", "a", "s", "e">>
      [] s = "Long Range" ->
           <<"L", "o", "n", "g", " ", "R", "a", "n", "g", "e">>
      [] s = "Offroad" -> <<"O", "f", "f", "r", "o", "a", "d">>
      [] s = "Morning" -> <<"M", "o", "r", "n", "i", "n", "g">>
      [] s = "Yes" -> <<"Y", "e", "s">>
      [] s = "2025-02-11" ->
           <<"2", "0", "2", "5", "-", "0", "2", "-", "1", "1">>
      [] s = "21:40" -> <<"2", "1", ":", "4", "0">>
      [] s = "Paint Defect" ->
           <<"P", "a", "i", "n", "t", " ", "D", "e", "f", "e", "c", "t">>
      [] s = "Paint Shop" ->
           <<"P", "a", "i", "n", "t", " ", "S", "h", "o", "p">>
      [] s = "Windshield" ->
           <<"W", "i", "n", "d", "s", "h", "i", "e", "l", "d">>
      [] s = "Lisa Chen" -> <<"L", "i", "s", "a", " ", "C", "h", "e", "n">>
      [] s = "BMW-4711" -> <<"B", "M", "W", "-", "4", "7", "1", "1">>
      [] s = "Long" -> <<"L", "o", "n", "g">>
      [] s = "High Performance" ->
           <<"H", "i", "g", "h", " ", "P", "e", "r", "f", "o", "r", "m", "a",
           "n", "c", "e">>
      [] s = "Race" -> <<"R", "a", "c", "e">>
      [] s = "Night" -> <<"N", "i", "g", "h", "t">>
      [] s = "No" -> <<"N", "o">>
      [] s = "Cosmetic" -> <<"C", "o", "s", "m", "e", "t", "i", "c">>
      [] s = "Functional" ->
           <<"F", "u", "n", "c", "t", "i", "o", "n", "a", "l">>
      [] s = "Critical" -> <<"C", "r", "i", "t", "i", "c", "a", "l">>
      [] s = "Under Review" ->
           <<"U", "n", "d", "e", "r", " ", "R", "e", "v", "i", "e", "w">>
      [] s = "checked" -> <<"c", "h", "e", "c", "k", "e", "d">>
      [] s = "paint" -> <<"p", "a", "i", "n", "t">>
      [] s = "LISA" -> <<"L", "I", "S", "A">>
      [] s = "is" -> <<"i", "s">>
      [] s = "2.5" -> <<"2", ".", "5">>
      [] s = "true" -> <<"t", "r", "u", "e">>
      [] s = "false" -> <<"f", "a", "l", "s", "e">>
      [] s = "Misalignment Body Shop" ->
           <<"M", "i", "s", "a", "l", "i", "g", "n", "m", "e", "n", "t", " ",
           "B", "o", "d", "y", " ", "S", "h", "o", "p">>
      [] s = "Misalignment Door Panel" ->
           <<"M", "i", "s", "a", "l", "i", "g", "n", "m", "e", "n", "t", " ",
           "D", "o", "o", "r", " ", "P", "a", "n", "e", "l">>
      [] s = "Paint Defect Paint Shop" ->
           <<"P", "a", "i", "n", "t", " ", "D", "e", "f", "e", "c", "t", " ",
           "P", "a", "i", "n", "t", " ", "S", "h", "o", "p">>
      [] s = "Paint Defect Windshield" ->
           <<"P", "a", "i", "n", "t", " ", "D", "e", "f", "e", "c", "t", " ",
           "W", "i", "n", "d", "s", "h", "i", "e", "l", "d">>
      [] s = "Misalignment Body Shop Morning" ->
           <<"M", "i", "s", "a", "l", "i", "g", "n", "m", "e", "n", "t", " ",
           "B", "o", "d", "y", " ", "S", "h", "o", "p", " ", "M", "o", "r",
           "n", "i", "n", "g">>
      [] s = "Misalignment Body Shop Door Panel" ->
           <<"M", "i", "s", "a", "l", "i", "g", "n", "m", "e", "n", "t", " ",
           "B", "o", "d", "y", " ", "S", "h", "o", "p", " ", "D", "o", "o",
           "r", " ", "P", "a", "n", "e", "l">>
      [] s = "Paint Defect Paint Shop Night" ->
           <<"P", "a", "i", "n", "t", " ", "D", "e", "f", "e", "c", "t", " ",
           "P", "a", "i", "n", "t", " ", "S", "h", "o", "p", " ", "N", "i",
           "g", "h", "t">>
      [] s = "Paint Defect Paint Shop Windshield" ->
           <<"P", "a", "i", "n", "t", " ", "D", "e", "f", "e", "c", "t", " ",
           "P", "a", "i", "n", "t", " ", "S", "h", "o", "p", " ", "W", "i",
           "n", "d", "s", "h", "i", "e", "l", "d">>

\* the decimal digits of a natural number
RECURSIVE digits(_)
digits(n) ==
    IF n < 10 THEN <<Ascii[n + 17]>>
    ELSE Append(digits(n \div 10), Ascii[(n % 10) + 17])

\* Number.prototype.toString of a number held in tenths: 80 is "8", 25 is "2.5"
tenthsToString(t) ==
    IF t % 10 = 0 THEN digits(t \div 10)
    ELSE digits(t \div 10) \o <<".">> \o digits(t % 10)

\* String.prototype.toLowerCase: A .. Z (65 .. 90) move to a .. z
toLowerCase(cs) ==
    [i \in 1..Len(cs) |->
        IF codeOf[cs[i]] >= 65 /\ codeOf[cs[i]] <= 90
        THEN LowerCase[codeOf[cs[i]] + 32 - 96]
        ELSE cs[i]]

\* String.prototype.includes on sequences of characters
stringIncludes(hay, needle) ==
    \E k \in 0..(Len(hay) - Len(needle)) : SubSeq(hay, k + 1, k + Len(needle)) = needle

\* a < b on texts: the order of the code units
stringLess(a, b) ==
    \E k \in 1..Len(b) :
        /\ k <= Len(a) + 1
        /\ \A j \in 1..(k - 1) : a[j] = b[j]
        /\ (k = Len(a) + 1 \/ codeOf[a[k]] < codeOf[b[k]])

(***************************************************************************)
(* Filter and sort (App.tsx:531-553).                                      *)
(***************************************************************************)
\* the fields of a record in the order of Object.values (App.tsx:50-70)
fieldNames ==
    <<"id", "date", "time", "defectName", "station", "partOfCar", "reporter",
      "partNumber", "severityRating", "carModel", "motorType", "designPackage",
      "productionShift", "resolutionTime", "rootCauseIdentified", "defectCategory",
      "flagged", "note", "status">>

\* val.toString() of one field: a number gives its decimal form (the
\* resolution time is held in tenths), a boolean "true" or "false", a
\* string itself
toString(d, field) ==
    CASE field \in {"id", "severityRating"} -> digits(d[field])
      [] field = "resolutionTime"           -> tenthsToString(d[field])
      [] field = "flagged"                  -> chars(IF d[field] THEN "true" ELSE "false")
      [] OTHER                              -> chars(d[field])

\* the test of the search with the case of the field kept
matchesCaseSensitive(d, term) ==
    LET needle == toLowerCase(chars(term))
    IN  \E i \in 1..Len(fieldNames) : stringIncludes(toString(d, fieldNames[i]), needle)

\* App.tsx:533-535
matches(d, term) ==
    LET needle == toLowerCase(chars(term))
    IN  \E i \in 1..Len(fieldNames) :
            stringIncludes(toLowerCase(toString(d, fieldNames[i])), needle)

\* aVal < bVal for the values of one field of two records
less(a, b, field) ==
    CASE field \in {"id", "severityRating", "resolutionTime"} -> a[field] < b[field]
      [] field = "flagged" -> ~a[field] /\ b[field]
      [] OTHER             -> stringLess(chars(a[field]), chars(b[field]))

\* the comparator always answering as for the ascending direction
filteredRankAscending(result, config) ==
    [i \in 1..Len(result) |->
        Cardinality({j \in 1..Len(result) : less(result[j], result[i], config.key)})]

\* App.tsx:543-549: the comparator orders two records by their values of
\* the key, reversed for the direction desc, and leaves equal values alone;
\* the rank of a record is the number of records that come before it by
\* the comparator
filteredRank(result, config) ==
    [i \in 1..Len(result) |->
        IF config.direction = "asc"
        THEN Cardinality({j \in 1..Len(result) : less(result[j], result[i], config.key)})
        ELSE Cardinality({j \in 1..Len(result) : less(result[i], result[j], config.key)})]

\* App.tsx:531-553; `outliers` is the value of calculateOutliers
filtered(recs, term, outliersOnly, config, outliers) ==
    LET matched == SelectSeq(recs, LAMBDA d : matches(d, term))
        result  == IF outliersOnly
                   THEN SelectSeq(matched, LAMBDA d : isOutlier(d, outliers))
                   ELSE matched
    IN  IF config.key # NULL THEN sort(result, filteredRank(result, config))
        ELSE result

(***************************************************************************)
(* View parameters.                                                        *)
(***************************************************************************)
\* the slider's values 1, 1.5, 2, 2.5, 3, doubled (App.tsx:1094-1100)
Thresholds == 2..6
\* the thresholds a session moves the slider to: the default 2 and the maximum 3
SessionThresholds == {4, 6}
\* the column whose header a session clicks (one of the keys of App.tsx:1246)
SortKeys == {"severityRating"}
\* texts typed into the search box
SearchTerms == {"", "paint"}
\* texts given to handleNoteUpdate
Notes == {"", "checked"}
\* ids handed to the handlers: every id of the set and one no record has
Ids == 1..(NumRecords + 1)
\* the rows whose flag button is clicked (App.tsx:1280)
ViewIds == {1, 2}

\* lastOp after a change of a view parameter: no call on the record set
ViewOp == [op |-> "view", id |-> 0, note |-> "", before |-> data]

\* a value of aiAnalysis: a text, after its prefix if it has one, and for
\* the content of a response the prompt it answers
Message(prefix, text, prompt) == [prefix |-> prefix, text |-> text, prompt |-> prompt]

\* useState('') (App.tsx:82), no invocation of runAIAnalysis yet
AIDefaults ==
    /\ aiAnalysis = Message("", "", {})
    /\ aiCalls = {}
    /\ nextCall = 1
    /\ requestsSent = 0
    /\ unhandled = 0

\* the useState initial values (App.tsx:78-82, 347) and the history
\* variables, in a build without the API key
ViewDefaults ==
    /\ searchTerm = ""
    /\ sortConfig = [key |-> NULL, direction |-> "asc"]
    /\ showOutliersOnly = FALSE
    /\ stdDevThreshold = 4
    /\ selectedDefect = NULL
    /\ created = data
    /\ lastOp = [op |-> "init", id |-> 0, note |-> "", before |-> data]
    /\ AIDefaults
    /\ apiKey = NULL

Init ==
    /\ data \in generateSyntheticData(NumRecords, SessionDraws)
    /\ ViewDefaults

(***************************************************************************)
(* Handlers (App.tsx:556-571) and state setters.                           *)
(***************************************************************************)
\* flagRecord with the two status texts exchanged
flagRecordSwapped(d, id) ==
    IF d.id = id
    THEN [d EXCEPT !.flagged = ~d.flagged,
                   !.status  = IF d.flagged THEN "Under Review" ELSE ""]
    ELSE d

\* flagRecord that never clears the status
flagRecordKeepsStatus(d, id) ==
    IF d.id = id
    THEN [d EXCEPT !.flagged = ~d.flagged, !.status = "Under Review"]
    ELSE d

\* App.tsx:557-559: the mapping handleFlag applies to every record
flagRecord(d, id) ==
    IF d.id = id
    THEN [d EXCEPT !.flagged = ~d.flagged,
                   !.status  = IF d.flagged THEN "" ELSE "Under Review"]
    ELSE d

\* handleFlag that keeps only the record it toggles
handleFlagFilters(id) ==
    /\ data' = LET hit == SelectSeq(data, LAMBDA d : d.id = id)
               IN  [i \in 1..Len(hit) |-> flagRecord(hit[i], id)]
    /\ lastOp' = [op |-> "handleFlag", id |-> id, note |-> "", before |-> data]
    /\ UNCHANGED <<searchTerm, sortConfig, showOutliersOnly, stdDevThreshold,
                   selectedDefect, created>>
    /\ UNCHANGED aiVars

\* App.tsx:556-560
handleFlag(id) ==
    /\ data' = [i \in 1..Len(data) |-> flagRecord(data[i], id)]
    /\ lastOp' = [op |-> "handleFlag", id |-> id, note |-> "", before |-> data]
    /\ UNCHANGED <<searchTerm, sortConfig, showOutliersOnly, stdDevThreshold,
                   selectedDefect, created>>
    /\ UNCHANGED aiVars

\* noteRecord without the test of the id
noteRecordAll(d, id, note) == [d EXCEPT !.note = note]

\* App.tsx:563: the mapping handleNoteUpdate applies to every record
noteRecord(d, id, note) ==
    IF d.id = id THEN [d EXCEPT !.note = note] ELSE d

\* handleNoteUpdate that adds a record when no record has the id
handleNoteUpdateUpserts(id, note) ==
    /\ data' = IF \E i \in 1..Len(data) : data[i].id = id
               THEN [i \in 1..Len(data) |-> noteRecord(data[i], id, note)]
               ELSE Append(data, [data[1] EXCEPT !.id = id, !.note = note])
    /\ lastOp' = [op |-> "handleNoteUpdate", id |-> id, note |-> note, before |-> data]
    /\ UNCHANGED <<searchTerm, sortConfig, showOutliersOnly, stdDevThreshold,
                   selectedDefect, created>>
    /\ UNCHANGED aiVars

\* App.tsx:562-564
handleNoteUpdate(id, note) ==
    /\ data' = [i \in 1..Len(data) |-> noteRecord(data[i], id, note)]
    /\ lastOp' = [op |-> "handleNoteUpdate", id |-> id, note |-> note, before |-> data]
    /\ UNCHANGED <<searchTerm, sortConfig, showOutliersOnly, stdDevThreshold,
                   selectedDefect, created>>
    /\ UNCHANGED aiVars

\* the next configuration with the direction toggled whatever the key
nextSortConfigToggles(cfg, key) ==
    [key |-> key, direction |-> IF cfg.direction = "asc" THEN "desc" ELSE "asc"]

\* App.tsx:567-570
nextSortConfig(cfg, key) ==
    [key |-> key,
     direction |-> IF cfg.key = key /\ cfg.direction = "asc" THEN "desc" ELSE "asc"]

handleSort(key) ==
    /\ sortConfig' = nextSortConfig(sortConfig, key)
    /\ lastOp' = ViewOp
    /\ UNCHANGED <<data, searchTerm, showOutliersOnly, stdDevThreshold,
                   selectedDefect, created>>
    /\ UNCHANGED aiVars

setSearchTerm(term) ==
    /\ searchTerm' = term
    /\ lastOp' = ViewOp
    /\ UNCHANGED <<data, sortConfig, showOutliersOnly, stdDevThreshold,
                   selectedDefect, created>>
    /\ UNCHANGED aiVars

\* App.tsx:1027-1032: the button "Filter Data: target" of the explorer
filterTarget ==
    LET explorer == recurrenceExplorer(data, selectedDefect)
    IN  /\ explorer # NoResult
        /\ setSearchTerm(explorer.target)

\* App.tsx:1036-1046: the button "Filter: + Top Station"
filterTopStation ==
    LET explorer == recurrenceExplorer(data, selectedDefect)
    IN  /\ explorer # NoResult
        /\ Len(explorer.topStations) >= 1
        /\ setSearchTerm(filterString(<<explorer.target, explorer.topStations[1].name>>))

\* App.tsx:1047-1057: the button "Filter: + Top Part"
filterTopPart ==
    LET explorer == recurrenceExplorer(data, selectedDefect)
    IN  /\ explorer # NoResult
        /\ Len(explorer.topParts) >= 1
        /\ setSearchTerm(filterString(<<explorer.target, explorer.topParts[1].name>>))

setShowOutliersOnly(checked) ==
    /\ showOutliersOnly' = checked
    /\ lastOp' = ViewOp
    /\ UNCHANGED <<data, searchTerm, sortConfig, stdDevThreshold,
                   selectedDefect, created>>
    /\ UNCHANGED aiVars

setStdDevThreshold(k) ==
    /\ stdDevThreshold' = k
    /\ lastOp' = ViewOp
    /\ UNCHANGED <<data, searchTerm, sortConfig, showOutliersOnly,
                   selectedDefect, created>>
    /\ UNCHANGED aiVars

\* App.tsx:948: the empty option of the select gives null
setSelectedDefect(name) ==
    /\ selectedDefect' = name
    /\ lastOp' = ViewOp
    /\ UNCHANGED <<data, searchTerm, sortConfig, showOutliersOnly,
                   stdDevThreshold, created>>
    /\ UNCHANGED aiVars

\* the options of the defect select a session picks: the empty option and
\* the name of the first record (App.tsx:948)
DefectOptions == {NULL, data[1].defectName}

Next ==
    \/ \E id \in Ids : handleFlag(id)
    \/ \E id \in Ids, note \in Notes : handleNoteUpdate(id, note)
    \/ \E key \in SortKeys : handleSort(key)
    \/ \E term \in SearchTerms : setSearchTerm(term)
    \/ \E checked \in BOOLEAN : setShowOutliersOnly(checked)
    \/ \E k \in SessionThresholds : setStdDevThreshold(k)
    \/ \E name \in DefectOptions : setSelectedDefect(name)

Spec == Init /\ [][Next]_vars

(***************************************************************************)
(* AI analysis (App.tsx:575-644).                                          *)
(*                                                                         *)
(* runAIAnalysis is an async function: it runs to its first await in the   *)
(* click that starts it and goes on when the awaited promise settles, the  *)
(* promise of fetch, then the promise of response.json().  An invocation   *)
(* waiting at an await is an element of aiCalls; it holds the prompt, made *)
(* of the flagged records of the render in which it started.               *)
(* process.env.REACT_APP_GROK_API_KEY is a constant of the build, a text   *)
(* or undefined (NULL).                                                    *)
(***************************************************************************)
\* the ways the promise of fetch settles: rejected with an Error (no
\* network), rejected with a value without a message, fulfilled with a
\* response that is not ok, fulfilled with a response that is ok
FetchOutcomes == {"rejected", "rejected without message", "not ok", "ok"}

\* the bodies of a response that is ok: not JSON, or a JSON value in which
\* the path result.choices[0].message.content ends at null or undefined
\* after 0 .. 4 links, or has a content
Bodies ==
    {"not JSON", "null", "no choices", "empty choices", "no message",
     "null content", "content"}

\* the message of the value thrown or rejected, NULL for none
errorMessage(err) ==
    CASE err = "no key" ->
           "API key not found. Please set REACT_APP_GROK_API_KEY in your .env or .env.local file."
      [] err = "not ok"   -> "API Error: 401 Unauthorized"
      [] err = "rejected" -> "Failed to fetch"
      [] err = "not JSON" -> "Unexpected token < in JSON at position 0"
      [] OTHER            -> NULL

\* App.tsx:641-643: the catch block
catch(err) ==
    Message("AI Analysis failed: ",
            IF errorMessage(err) = NULL THEN "Unknown error" ELSE errorMessage(err), {})

\* App.tsx:585-641: the places inside the try block at which an exception
\* arises: the two throw statements and the two awaits
tryBlock == {"no key", "not ok", "rejected", "rejected without message", "not JSON"}

\* an exception arising while aiAnalysis is `current`: inside the try block
\* the catch block sets the message, outside it the invocation ends with
\* the exception and the message stays
raise(err, current) ==
    IF err \in tryBlock
    THEN [message |-> catch(err), unhandled |-> 0]
    ELSE [message |-> current, unhandled |-> 1]

\* App.tsx:638: result?.choices?.[0]?.message?.content ?? 'No content returned'
textOf(body, prompt) ==
    IF body = "content" THEN Message("", "content", prompt)
    ELSE Message("", "No content returned", {})

\* the step after fetch that takes every response for a success
afterFetchIgnoresStatus(call, outcome) ==
    IF outcome \in {"rejected", "rejected without message"}
    THEN [pending |-> {}] @@ raise(outcome, aiAnalysis)
    ELSE [pending |-> {[call EXCEPT !.pc = "json"]}, message |-> aiAnalysis, unhandled |-> 0]

\* App.tsx:619-637: what an invocation does when its fetch settles: a
\* rejection and a response that is not ok end in the catch block, a
\* response that is ok leads to the await of response.json()
afterFetch(call, outcome) ==
    IF outcome = "ok"
    THEN [pending |-> {[call EXCEPT !.pc = "json"]}, message |-> aiAnalysis, unhandled |-> 0]
    ELSE [pending |-> {}] @@ raise(outcome, aiAnalysis)

\* the flagged ids of a record set
flaggedIds(recs) == {recs[i].id : i \in {j \in 1..Len(recs) : recs[j].flagged}}

\* the step after response.json() with the content answering the records
\* flagged when the response arrives
afterJsonCurrentFlags(call, body) ==
    IF body = "not JSON" THEN raise(body, aiAnalysis)
    ELSE [message |-> textOf(body, flaggedIds(data)), unhandled |-> 0]

\* App.tsx:637-640: what an invocation does when response.json() settles
afterJson(call, body) ==
    IF body = "not JSON" THEN raise(body, aiAnalysis)
    ELSE [message |-> textOf(body, call.prompt), unhandled |-> 0]

\* App.tsx:575-631: the click, up to the await of fetch.  The two calls of
\* setAiAnalysis of one click are batched: the render shows the last.
runAIAnalysis ==
    /\ nextCall <= MaxCalls
    /\ LET flaggedRecords == flaggedIds(data)
           note == IF flaggedRecords = {} THEN "none flagged"
                   ELSE IF apiKey = NULL THEN "no key" ELSE "sent"
       IN  /\ aiAnalysis' =
                 CASE note = "none flagged" -> Message("", "No flagged records to analyze.", {})
                   [] note = "no key"       ->
                        raise("no key", Message("", "Analyzing...", {})).message
                   [] note = "sent"         -> Message("", "Analyzing...", {})
           /\ aiCalls' = IF note = "sent"
                         THEN aiCalls \cup {[id |-> nextCall, prompt |-> flaggedRecords,
                                             pc |-> "fetch"]}
                         ELSE aiCalls
           /\ requestsSent' = IF note = "sent" THEN requestsSent + 1 ELSE requestsSent
           /\ lastOp' = [op |-> "runAIAnalysis", id |-> nextCall, note |-> note,
                         before |-> data]
           /\ unhandled' = IF note = "no key"
                           THEN unhandled + raise("no key", aiAnalysis).unhandled
                           ELSE unhandled
    /\ nextCall' = nextCall + 1
    /\ UNCHANGED <<data, searchTerm, sortConfig, showOutliersOnly, stdDevThreshold,
                   selectedDefect, created, apiKey>>

\* App.tsx:619-635: the promise of fetch settles
fetchSettles(call, outcome) ==
    /\ call \in aiCalls /\ call.pc = "fetch"
    /\ aiCalls' = (aiCalls \ {call}) \cup afterFetch(call, outcome).pending
    /\ aiAnalysis' = afterFetch(call, outcome).message
    /\ unhandled' = unhandled + afterFetch(call, outcome).unhandled
    /\ lastOp' = [op |-> "fetchSettles", id |-> call.id, note |-> outcome, before |-> data]
    /\ UNCHANGED <<data, searchTerm, sortConfig, showOutliersOnly, stdDevThreshold,
                   selectedDefect, created, apiKey, nextCall, requestsSent>>

\* App.tsx:637-643: the promise of response.json() settles
jsonSettles(call, body) ==
    /\ call \in aiCalls /\ call.pc = "json"
    /\ aiCalls' = aiCalls \ {call}
    /\ aiAnalysis' = afterJson(call, body).message
    /\ unhandled' = unhandled + afterJson(call, body).unhandled
    /\ lastOp' = [op |-> "jsonSettles", id |-> call.id, note |-> body, before |-> data]
    /\ UNCHANGED <<data, searchTerm, sortConfig, showOutliersOnly, stdDevThreshold,
                   selectedDefect, created, apiKey, nextCall, requestsSent>>

\* the builds of the session: without the key and with it
ApiKeys == {NULL, "gsk_key"}

\* the analysis reads the flags of the records alone: one draw, and the
\* flag buttons of the first two rows
InitAI ==
    /\ data \in generateSyntheticData(NumRecords, {CriticalDraw})
    /\ searchTerm = ""
    /\ sortConfig = [key |-> NULL, direction |-> "asc"]
    /\ showOutliersOnly = FALSE
    /\ stdDevThreshold = 4
    /\ selectedDefect = NULL
    /\ created = data
    /\ lastOp = [op |-> "init", id |-> 0, note |-> "", before |-> data]
    /\ AIDefaults
    /\ apiKey \in ApiKeys

NextAI ==
    \/ \E id \in ViewIds : handleFlag(id)
    \/ runAIAnalysis
    \/ \E call \in aiCalls, outcome \in FetchOutcomes : fetchSettles(call, outcome)
    \/ \E call \in aiCalls, body \in Bodies : jsonSettles(call, body)

SpecAI == InitAI /\ [][NextAI]_vars

(***************************************************************************)
(* The outlier engine on its own: any record set of up to                  *)
(* MaxOutlierRecords records, and the slider.                              *)
(***************************************************************************)
InitOutlier ==
    /\ \E n \in 1..MaxOutlierRecords : data \in generateSyntheticData(n, OutlierDraws)
    /\ ViewDefaults

NextOutlier == \E k \in Thresholds : setStdDevThreshold(k)

SpecOutlier == InitOutlier /\ [][NextOutlier]_vars

(***************************************************************************)
(* The aggregations on their own: any record set of up to MaxRecords       *)
(* records, and the defect select.                                         *)
(***************************************************************************)
InitAnalytics ==
    /\ \E n \in 1..MaxRecords : data \in generateSyntheticData(n, AnalyticsDraws)
    /\ ViewDefaults

\* the options of the defect select: the empty one and every name in the
\* data (App.tsx:950-953)
AllDefectOptions == {NULL} \cup {data[i].defectName : i \in 1..Len(data)}

NextAnalytics == \E name \in AllDefectOptions : setSelectedDefect(name)

SpecAnalytics == InitAnalytics /\ [][NextAnalytics]_vars

(***************************************************************************)
(* The top-N selections on their own: record sets of up to MaxTopRecords   *)
(* records over the defect names of the generator.  The aggregations never *)
(* compare two names but for equality, so the names are taken in the order *)
(* of the generator's list: a record has a name already seen or the next   *)
(* name of the list.  The other fields follow the position of the record.  *)
(***************************************************************************)
\* App.tsx:40
defectNames ==
    <<"Misalignment", "Paint Defect", "Electrical Issue", "Loose Component",
      "Calibration Error", "Surface Scratch", "Seal Defect", "Software Glitch">>

\* the number of names among the first records is the largest index used
namesSeen(s) == Cardinality({s[i] : i \in 1..Len(s)})

\* the sequences of n indices into defectNames, names in order of discovery
RECURSIVE nameOrders(_)
nameOrders(n) ==
    IF n = 0 THEN {<<>>}
    ELSE UNION { { Append(s, k) :
                     k \in 1..(IF namesSeen(s) < Len(defectNames)
                               THEN namesSeen(s) + 1 ELSE Len(defectNames)) } :
                 s \in nameOrders(n - 1) }

\* the draws of the records by position: station and shift vary with it
PositionDraws ==
    <<CriticalDraw, CosmeticDraw,
      [CosmeticDraw EXCEPT !.productionShift = "Afternoon", !.severityRating = 6,
                           !.resolutionTime = 40]>>

InitTopN ==
    /\ \E n \in 1..MaxTopRecords : \E s \in nameOrders(n) :
          data = [i \in 1..n |->
                    Defect(i, [PositionDraws[((i - 1) % 3) + 1]
                                 EXCEPT !.defectName = defectNames[s[i]]])]
    /\ ViewDefaults

NextTopN == \E name \in AllDefectOptions : setSelectedDefect(name)

SpecTopN == InitTopN /\ [][NextTopN]_vars

(***************************************************************************)
(* The heatmap on its own: record sets of up to MaxHeatRecords records,    *)
(* the empty one included, the records of one defect name next to each     *)
(* other.  The records of the seventh name are of a station and a shift    *)
(* that no other record has; the others take theirs from their position,   *)
(* two records in a row alike.                                             *)
(***************************************************************************)
\* the sequences of n indices into defectNames in which every index is the
\* one before it or the next of the list
RECURSIVE nameRuns(_)
nameRuns(n) ==
    IF n = 0 THEN {<<>>}
    ELSE IF n = 1 THEN {<<1>>}
    ELSE UNION { { Append(s, k) :
                     k \in {s[Len(s)],
                            IF s[Len(s)] < Len(defectNames)
                            THEN s[Len(s)] + 1 ELSE s[Len(s)]} } :
                 s \in nameRuns(n - 1) }

\* a draw at a station and in a shift of its own
RemoteDraw ==
    [CosmeticDraw EXCEPT !.station = "Quality Gate", !.productionShift = "Afternoon"]

\* the draw of the record at position i with the k-th defect name
HeatmapDraw(i, k) ==
    [(IF k = 7 THEN RemoteDraw
      ELSE IF ((i - 1) \div 2) % 2 = 0 THEN CriticalDraw ELSE CosmeticDraw)
        EXCEPT !.defectName = defectNames[k]]

InitHeatmap ==
    /\ \E n \in 0..MaxHeatRecords : \E s \in nameRuns(n) :
          data = [i \in 1..n |-> Defect(i, HeatmapDraw(i, s[i]))]
    /\ ViewDefaults

NextHeatmap == \E name \in AllDefectOptions : setSelectedDefect(name)

SpecHeatmap == InitHeatmap /\ [][NextHeatmap]_vars

(***************************************************************************)
(* The triads on their own: up to MaxGroup records of one draw, severity 6 *)
(* and 4 h, followed by up to three records of the draws of the            *)
(* aggregations, one of which is of the same triad.                        *)
(***************************************************************************)
GroupDraw == [CosmeticDraw EXCEPT !.severityRating = 6, !.resolutionTime = 40]

InitTriads ==
    /\ \E k \in 0..MaxGroup, m \in 0..3 :
          /\ k + m >= 1
          /\ \E tail \in [1..m -> AnalyticsDraws] :
                data = [i \in 1..(k + m) |->
                          Defect(i, IF i <= k THEN GroupDraw ELSE tail[i - k])]
    /\ ViewDefaults

NextTriads == \E name \in AllDefectOptions : setSelectedDefect(name)

SpecTriads == InitTriads /\ [][NextTriads]_vars

(***************************************************************************)
(* The data table: the search box, the outlier toggle, the column headers  *)
(* and the flag button over a session of NumViewRecords records.           *)
(***************************************************************************)
\* texts typed into the search box: none, a part of a reporter's name in
\* capitals, a text found in a reporter's name and in a defect name, a
\* resolution time, and the text of a set flag
ViewSearchTerms == {"", "LISA", "is", "2.5", "true"}
\* the columns whose header is clicked: a number and a text (App.tsx:1246)
ViewSortKeys == {"severityRating", "defectName"}

InitView ==
    /\ data \in generateSyntheticData(NumViewRecords, SessionDraws)
    /\ ViewDefaults

NextView ==
    \/ \E id \in ViewIds : handleFlag(id)
    \/ \E key \in ViewSortKeys : handleSort(key)
    \/ \E term \in ViewSearchTerms : setSearchTerm(term)
    \/ \E checked \in BOOLEAN : setShowOutliersOnly(checked)

SpecView == InitView /\ [][NextView]_vars

(***************************************************************************)
(* The filter buttons of the explorer: the defect select, the three        *)
(* buttons and the search box over a session of NumViewRecords records.    *)
(***************************************************************************)
InitFilter ==
    /\ data \in generateSyntheticData(NumViewRecords, SessionDraws)
    /\ ViewDefaults

NextFilter ==
    \/ \E name \in AllDefectOptions : setSelectedDefect(name)
    \/ filterTarget
    \/ filterTopStation
    \/ filterTopPart
    \/ \E term \in ViewSearchTerms : setSearchTerm(term)

SpecFilter == InitFilter /\ [][NextFilter]_vars

(***************************************************************************)
(* The degenerate record sets: the empty set and the sets of one record,   *)
(* under every control of the dashboard.                                   *)
(***************************************************************************)
InitDegenerate ==
    /\ \E n \in 0..1 : data \in generateSyntheticData(n, SessionDraws)
    /\ ViewDefaults

NextDegenerate ==
    \/ \E id \in {1} : handleFlag(id)
    \/ \E key \in SortKeys : handleSort(key)
    \/ \E term \in SearchTerms : setSearchTerm(term)
    \/ \E checked \in BOOLEAN : setShowOutliersOnly(checked)
    \/ \E k \in Thresholds : setStdDevThreshold(k)
    \/ \E name \in AllDefectOptions : setSelectedDefect(name)

SpecDegenerate == InitDegenerate /\ [][NextDegenerate]_vars

(***************************************************************************)
(* The record store: flag, note and the frame of the handlers.             *)
(***************************************************************************)
\* the ids of a record set
IdsOf(recs) == {recs[i].id : i \in 1..Len(recs)}
\* the fields a session may change
MutableFields == {"flagged", "status", "note"}

\* C1: handleFlag(id) on a record that is not flagged leaves it flagged with
\* status "Under Review"; on a flagged record it leaves it not flagged with
\* the empty status.
C1_FlagToggles ==
    lastOp.op = "handleFlag" =>
        \A i \in 1..Len(lastOp.before) :
            lastOp.before[i].id = lastOp.id =>
                /\ i <= Len(data)
                /\ IF lastOp.before[i].flagged
                   THEN data[i].flagged = FALSE /\ data[i].status = ""
                   ELSE data[i].flagged = TRUE /\ data[i].status = "Under Review"

\* a flagged record has just been unflagged (so it was flagged before)
C1_Witness ==
    /\ lastOp.op = "handleFlag"
    /\ \E i \in 1..Len(data) :
          /\ lastOp.before[i].id = lastOp.id
          /\ lastOp.before[i].flagged
          /\ lastOp.before[i].status = "Under Review"
          /\ ~data[i].flagged

\* C2: in every reachable state every record is flagged exactly when its
\* status is "Under Review" and not flagged exactly when its status is empty.
C2_FlagStatusConsistent ==
    \A i \in 1..Len(data) :
        /\ data[i].flagged = TRUE  <=> data[i].status = "Under Review"
        /\ data[i].flagged = FALSE <=> data[i].status = ""

\* after flag, unflag and a note on one record, beside a flagged record
C2_Witness ==
    /\ lastOp.op = "handleFlag"
    /\ \E i, j \in 1..Len(data) :
          /\ lastOp.before[i].flagged /\ ~data[i].flagged /\ data[i].note # ""
          /\ data[j].flagged

\* C3: handleNoteUpdate(id, text) sets the note of the record with that id
\* and nothing else: its other fields and every other record are unchanged.
C3_NoteOnly ==
    lastOp.op = "handleNoteUpdate" =>
        /\ Len(data) = Len(lastOp.before)
        /\ \A i \in 1..Len(lastOp.before) :
              IF lastOp.before[i].id = lastOp.id
              THEN /\ data[i].note = lastOp.note
                   /\ \A f \in (DOMAIN data[i]) \ {"note"} :
                         data[i][f] = lastOp.before[i][f]
              ELSE data[i] = lastOp.before[i]

\* a note was written on a flagged record while another record holds another note
C3_Witness ==
    /\ lastOp.op = "handleNoteUpdate"
    /\ \E i, j \in 1..Len(data) :
          /\ data[i].id = lastOp.id /\ data[i].flagged
          /\ data[i].note # lastOp.before[i].note
          /\ j # i /\ data[j].note # data[i].note

\* C4: after any sequence of handler calls and view changes the record set
\* has the length, the ids and the order it was created with, the ids are
\* distinct, and every field but flagged, status and note has its creation
\* value.
C4_RecordSetStable ==
    /\ Len(data) = Len(created)
    /\ \A i \in 1..Len(created) :
          /\ i <= Len(data)
          /\ data[i].id = created[i].id
          /\ \A f \in (DOMAIN created[i]) \ MutableFields : data[i][f] = created[i][f]
    /\ \A i, j \in 1..Len(data) : data[i].id = data[j].id => i = j

\* every kind of change has happened: a flag, a note, a sort, a search term,
\* the outlier toggle, the threshold and the selected defect
C4_Witness ==
    /\ \E i \in 1..Len(data) : data[i].flagged /\ data[i].note # ""
    /\ sortConfig.key # NULL /\ sortConfig.direction = "desc"
    /\ searchTerm # ""
    /\ showOutliersOnly
    /\ stdDevThreshold # 4
    /\ selectedDefect # NULL

\* C5: handleFlag or handleNoteUpdate with an id no record has leaves the
\* record set as it was.
C5_UnknownIdNoChange ==
    (/\ lastOp.op \in {"handleFlag", "handleNoteUpdate"}
     /\ lastOp.id \notin IdsOf(lastOp.before)) => data = lastOp.before

\* a note for an unknown id, given while the set holds a flagged record
C5_Witness ==
    /\ lastOp.op = "handleNoteUpdate"
    /\ lastOp.id \notin IdsOf(lastOp.before)
    /\ lastOp.note # ""
    /\ \E i \in 1..Len(data) : data[i].flagged

(***************************************************************************)
(* The outlier engine.                                                     *)
(*                                                                         *)
(* The claims' bounds are restated on integers, independently of           *)
(* metricBounds.  For N values x of sum S and sum of squares Q the         *)
(* population variance is (N*Q - S^2) / N^2, so with the doubled           *)
(* threshold k                                                             *)
(*     x > mean + (k/2)*sigma  iff  N*x - S > 0 and 4*(N*x - S)^2 > k^2 * (N*Q - S^2) *)
(*     x < mean - (k/2)*sigma  iff  S - N*x > 0 and 4*(S - N*x)^2 > k^2 * (N*Q - S^2) *)
(***************************************************************************)
ValuesOf(recs, metric) == [i \in 1..Len(recs) |-> recs[i][metric]]
SquaresOf(recs, metric) == [i \in 1..Len(recs) |-> recs[i][metric] * recs[i][metric]]
\* N^2 times the population variance of a metric
ScaledVariance(recs, metric) ==
    Len(recs) * SumSeq(SquaresOf(recs, metric))
        - SumSeq(ValuesOf(recs, metric)) * SumSeq(ValuesOf(recs, metric))
\* a distance d = N*(x - mean) beyond (k/2) standard deviations
Beyond(d, k, v) == d > 0 /\ 4 * d * d > k * k * v
AboveUpper(recs, metric, k, x) ==
    Beyond(Len(recs) * x - SumSeq(ValuesOf(recs, metric)), k, ScaledVariance(recs, metric))
BelowLower(recs, metric, k, x) ==
    Beyond(SumSeq(ValuesOf(recs, metric)) - Len(recs) * x, k, ScaledVariance(recs, metric))
\* the predicate of the claim
ExpectedOutlier(recs, k, r) ==
    \/ AboveUpper(recs, "resolutionTime", k, r.resolutionTime)
    \/ BelowLower(recs, "resolutionTime", k, r.resolutionTime)
    \/ AboveUpper(recs, "severityRating", k, r.severityRating)
    \/ r.severityRating >= 8

\* the thresholds of the slider at which record i of a set is an outlier
OutlierThresholds(recs, i) ==
    {k \in Thresholds : isOutlier(recs[i], calculateOutliers(recs, k))}

\* C6: isOutlier(record) holds exactly when resolutionTime is above its upper
\* bound or below its lower bound, or severityRating is above its upper bound
\* or at least 8, the bounds being mean -/+ k*sigma with the population
\* standard deviation; a severity below its lower bound alone does not make
\* an outlier.
C6_OutlierPredicate ==
    \A i \in 1..Len(data) :
        LET out == isOutlier(data[i], calculateOutliers(data, stdDevThreshold))
        IN  /\ out <=> ExpectedOutlier(data, stdDevThreshold, data[i])
            /\ (/\ BelowLower(data, "severityRating", stdDevThreshold, data[i].severityRating)
                /\ ~AboveUpper(data, "resolutionTime", stdDevThreshold, data[i].resolutionTime)
                /\ ~BelowLower(data, "resolutionTime", stdDevThreshold, data[i].resolutionTime)
                /\ data[i].severityRating < 8) => ~out

\* after a move of the slider: one record whose severity is below the lower
\* bound and which is no outlier, and one record below the static threshold
\* that is an outlier by its resolution time
C6_Witness ==
    /\ lastOp.op = "view" /\ stdDevThreshold # 4
    /\ \E i, j \in 1..Len(data) :
          /\ BelowLower(data, "severityRating", stdDevThreshold, data[i].severityRating)
          /\ ~isOutlier(data[i], calculateOutliers(data, stdDevThreshold))
          /\ data[j].severityRating < 8
          /\ AboveUpper(data, "resolutionTime", stdDevThreshold, data[j].resolutionTime)
          /\ isOutlier(data[j], calculateOutliers(data, stdDevThreshold))

\* C7: for thresholds k1 < k2 of the slider, a record that is no outlier at
\* k1 is no outlier at k2.
C7_MonotoneInThreshold ==
    \A i \in 1..Len(data) :
        LET at == OutlierThresholds(data, i) \cap Thresholds
        IN  \A k1, k2 \in Thresholds : (k1 < k2 /\ k1 \notin at) => k2 \notin at

\* the slider stands at 3 and a record that is an outlier at 1 is none now
C7_Witness ==
    /\ lastOp.op = "view" /\ stdDevThreshold = 6
    /\ \E i \in 1..Len(data) :
          /\ 2 \in OutlierThresholds(data, i)
          /\ ~isOutlier(data[i], calculateOutliers(data, stdDevThreshold))

\* the record set of the scenario: severity 9 / 1 h, severity 2 / 2 h,
\* severity 9 / 20 h
IsScenarioSet(recs) ==
    /\ Len(recs) = 3
    /\ recs[1].severityRating = 9 /\ recs[1].resolutionTime = 10
    /\ recs[2].severityRating = 2 /\ recs[2].resolutionTime = 20
    /\ recs[3].severityRating = 9 /\ recs[3].resolutionTime = 200

\* C8: every record with severityRating >= 8 is an outlier at every threshold
\* of the slider, so a change of the threshold never changes its status; in
\* the scenario set at k = 2 both severity-9 records are outliers.
C8_StaticCriticalInvariant ==
    /\ \A i \in 1..Len(data) :
          data[i].severityRating >= 8 =>
              /\ isOutlier(data[i], calculateOutliers(data, stdDevThreshold))
              /\ OutlierThresholds(data, i) = Thresholds
    /\ (IsScenarioSet(data) /\ stdDevThreshold = 4) =>
          /\ isOutlier(data[1], calculateOutliers(data, 4))
          /\ isOutlier(data[3], calculateOutliers(data, 4))
          /\ ~isOutlier(data[2], calculateOutliers(data, 4))

\* the scenario set at k = 2, where no statistical test holds of the first
\* record: it is an outlier by the static rule alone
C8_Witness ==
    /\ IsScenarioSet(data) /\ stdDevThreshold = 4 /\ lastOp.op = "view"
    /\ ~AboveUpper(data, "resolutionTime", 4, data[1].resolutionTime)
    /\ ~BelowLower(data, "resolutionTime", 4, data[1].resolutionTime)
    /\ ~AboveUpper(data, "severityRating", 4, data[1].severityRating)
    /\ isOutlier(data[1], calculateOutliers(data, stdDevThreshold))

(***************************************************************************)
(* The aggregations and the Pareto lists.                                  *)
(***************************************************************************)
\* the sum of one numeric field over the rows of a list
SumField(rows, field) == SumSeq([i \in 1..Len(rows) |-> rows[i][field]])

\* C9: for a non-empty record set the counts of every grouping sum to the
\* number of records: by carModel, defectName, reporter, date,
\* productionShift and station, the two Pareto lists and the triads.
C9_CountsSumToTotal ==
    LET a == analytics(data)
        p == pareto(data)
        t == triads(data)
        n == Len(data)
    IN  /\ SumField(a.defectsByModel, "value") = n
        /\ SumField(defectsByType(data), "count") = n
        /\ SumField(a.reporterPerformance, "total") = n
        /\ SumField(a.defectsByDate, "count") = n
        /\ SumField(a.shiftAnalysis, "count") = n
        /\ SumField(a.stationDefects, "count") = n
        /\ SumField(p.defectsPareto, "count") = n
        /\ SumField(p.partsPareto, "count") = n
        /\ SumField(t.byCount, "count") = n
        /\ SumField(t.byScore, "count") = n

\* a set in which every grouping has several keys and a key with several
\* records
C9_Witness ==
    LET a == analytics(data)
        p == pareto(data)
        t == triads(data)
        Mixed(rows, field) ==
            /\ Len(rows) >= 2
            /\ \E i \in 1..Len(rows) : rows[i][field] >= 2
    IN  /\ Len(data) >= 3
        /\ Mixed(a.defectsByModel, "value")
        /\ Mixed(a.reporterPerformance, "total")
        /\ Mixed(a.defectsByDate, "count")
        /\ Mixed(a.shiftAnalysis, "count")
        /\ Mixed(a.stationDefects, "count")
        /\ Mixed(p.defectsPareto, "count")
        /\ Mixed(p.partsPareto, "count")
        /\ Mixed(t.byCount, "count")

\* the properties of one Pareto list over n records; cumPct is in
\* hundredths of a percent, so it is the percentage c of the running sum
\* exactly when c/100 is within half a hundredth of 100 * sum / n
IsParetoList(rows, n) ==
    /\ \A i \in 1..(Len(rows) - 1) :
          /\ rows[i].count >= rows[i + 1].count
          /\ rows[i].cumPct <= rows[i + 1].cumPct
    /\ \A i \in 1..Len(rows) :
          LET running == SumSeq([j \in 1..i |-> rows[j].count])
              diff    == rows[i].cumPct * n - 10000 * running
          IN  2 * diff <= n /\ 2 * diff > 0 - n
    /\ Len(rows) > 0
    /\ rows[Len(rows)].cumPct = 10000

\* C10: for a non-empty record set, in both Pareto lists the rows are in
\* descending order of count, cumPct never decreases from a rank to the
\* next, cumPct of a rank is the percentage of the running sum of the counts
\* through that rank over N, and the last cumPct is 100.
C10_ParetoLists ==
    /\ IsParetoList(pareto(data).defectsPareto, Len(data))
    /\ IsParetoList(pareto(data).partsPareto, Len(data))

\* three defect names of unequal counts, the most frequent not the first
\* seen, beside two parts of unequal counts
C10_Witness ==
    LET rows  == pareto(data).defectsPareto
        parts == pareto(data).partsPareto
    IN  /\ Len(rows) = 3
        /\ rows[1].count > rows[3].count
        /\ rows[1].name # data[1].defectName
        /\ rows[1].cumPct < rows[2].cumPct /\ rows[2].cumPct < 10000
        /\ Len(parts) = 2
        /\ parts[1].count > parts[2].count

(***************************************************************************)
(* The heatmap and the recurrence explorer.                                *)
(***************************************************************************)
\* the number of records of a set with a given defect name
CountOfDefect(recs, name) == Cardinality({i \in 1..Len(recs) : recs[i].defectName = name})

\* the rows of a list whose field has a given value
RowsWith(rows, field, value) == SelectSeq(rows, LAMBDA r : r[field] = value)

\* C11: for every defect name in heatmap.topDefects, the counts of the
\* heatmap rows with that name, over all stations and shifts, sum to the
\* number of records of the full record set with that name.
C11_HeatmapRowSums ==
    LET h == heatmap(data)
    IN  \A t \in 1..Len(h.topDefects) :
            SumField(RowsWith(h.rows, "defectName", h.topDefects[t]), "count")
                = CountOfDefect(data, h.topDefects[t])

\* seven defect names, so that one is left out of the top six, over two
\* stations and three shifts, with an empty cell
C11_Witness ==
    LET h == heatmap(data)
    IN  /\ Len(unique(fieldOf(data, "defectName"))) = 7
        /\ Len(h.topDefects) = 6
        /\ Len(h.stations) = 2 /\ Len(h.shifts) = 3
        /\ Len(h.rows) = 36
        /\ \E p, q \in 1..Len(h.rows) : h.rows[p].count = 0 /\ h.rows[q].count = 1

\* C12: for every target defect, selected or defaulted, the counts of the
\* three shiftStats entries of the explorer (Morning, Afternoon, Night) sum
\* to the number of records whose defectName is the target.
C12_ShiftStatsSum ==
    LET e == recurrenceExplorer(data, selectedDefect)
    IN  e.target # NULL =>
            /\ Len(e.shiftStats) = 3
            /\ e.shiftStats[1].shift = "Morning"
            /\ e.shiftStats[2].shift = "Afternoon"
            /\ e.shiftStats[3].shift = "Night"
            /\ SumField(e.shiftStats, "count") = CountOfDefect(data, e.target)

\* a defect that is not the default target has been selected; its records
\* lie in two shifts, one of them the night shift, and one shift has none
C12_Witness ==
    LET e == recurrenceExplorer(data, selectedDefect)
    IN  /\ selectedDefect # NULL
        /\ selectedDefect # defaultTarget(data)
        /\ lastOp.op = "view"
        /\ e.shiftStats[3].count >= 1
        /\ \E i \in 1..2 : e.shiftStats[i].count >= 1
        /\ \E i \in 1..2 : e.shiftStats[i].count = 0
        /\ CountOfDefect(data, e.target) < Len(data)

(***************************************************************************)
(* The triads.                                                             *)
(***************************************************************************)
\* With count c and the row's averages s and r in hundredths, the value
\* c * (0.6 + 0.4 * (s/100) / 10) + 0.2 * (r/100) is (c*(1500 + s) + 5*r) / 2500;
\* a score x in hundredths is that value rounded to two decimals when
\* x/100 lies within half a hundredth of it.
IsScoreOf(x, row) ==
    LET v == row.count * (1500 + row.avgSeverity) + 5 * row.avgResH
    IN  2 * abs(25 * x - v) <= 25

\* the group of the scenario: count 10, average severity 6, average time 4 h
IsScenarioTriad(row) ==
    row.count = 10 /\ row.avgSeverity = 600 /\ row.avgResH = 400

\* C13: the score of every triad is count * (0.6 + 0.4 * avgSeverity / 10)
\* + 0.2 * avgResolutionTime rounded to two decimals; a group with count 10,
\* avgSeverity 6 and avgResolutionTime 4 has score 9.2.
C13_TriadScore ==
    \A list \in {triads(data).byCount, triads(data).byScore} :
        \A i \in 1..Len(list) :
            /\ IsScoreOf(list[i].score, list[i])
            /\ IsScenarioTriad(list[i]) => list[i].score = 920

\* the group of the scenario beside a triad whose score is not a whole
\* number of hundredths before rounding
C13_Witness ==
    LET rows == triads(data).byScore
    IN  \E i, j \in 1..Len(rows) :
            /\ IsScenarioTriad(rows[i]) /\ rows[i].score = 920
            /\ rows[i].sumSeverity = 60 /\ rows[i].sumResH = 400
            /\ j # i
            /\ (rows[j].count * (1500 + rows[j].avgSeverity) + 5 * rows[j].avgResH) % 25 # 0

(***************************************************************************)
(* The data table.                                                         *)
(***************************************************************************)
\* the view of the current state
View ==
    filtered(data, searchTerm, showOutliersOnly, sortConfig,
             calculateOutliers(data, stdDevThreshold))

\* a text contains a term without regard to case: at some offset every
\* character of the term equals the character of the text, both lowered
ContainsText(text, term) ==
    LET a == toLowerCase(text)
        b == toLowerCase(term)
    IN  \E k \in 0..(Len(a) - Len(b)) : \A j \in 1..Len(b) : a[k + j] = b[j]

\* a record passes the filters of the state
Passes(d) ==
    /\ \E i \in 1..Len(fieldNames) : ContainsText(toString(d, fieldNames[i]), chars(searchTerm))
    /\ showOutliersOnly => isOutlier(d, calculateOutliers(data, stdDevThreshold))

\* C14: the filtered view holds exactly the records of which the string form
\* of some field contains the search term without regard to case and which,
\* when the toggle is on, are outliers; with the empty term and the toggle
\* off it holds every record; a term within a reporter's name gives every
\* record of that reporter.
C14_FilteredView ==
    LET view   == View
        inView == {view[p] : p \in 1..Len(view)}
    IN  /\ \A i \in 1..Len(data) : Passes(data[i]) <=> data[i] \in inView
        /\ \A p \in 1..Len(view) : \E i \in 1..Len(data) : view[p] = data[i]
        /\ \A p, r \in 1..Len(view) : view[p].id = view[r].id => p = r
        /\ (searchTerm = "" /\ ~showOutliersOnly) => Len(view) = Len(data)
        /\ \A i \in 1..Len(data) :
              (/\ ~showOutliersOnly
               /\ ContainsText(chars(data[i].reporter), chars(searchTerm)))
                  => data[i] \in inView

\* the term LISA in capitals is in the box: the view holds the records of
\* Lisa Chen and not the record of John Smith
C14_Witness ==
    /\ searchTerm = "LISA" /\ ~showOutliersOnly /\ lastOp.op = "view"
    /\ Len(View) >= 1 /\ Len(View) < Len(data)
    /\ \A p \in 1..Len(View) : View[p].reporter = "Lisa Chen"
    /\ \E i \in 1..Len(data) : data[i].reporter = "John Smith"

(***************************************************************************)
(* The empty record set.                                                   *)
(***************************************************************************)
\* the four numbers of the bounds of one metric
BoundFields == {"mean", "stdDev", "lowerBound", "upperBound"}

\* C15: for an empty record set the mean, the standard deviation and the two
\* bounds of both metrics are numbers, not the result of a division by
\* zero.
C15_EmptyBoundsDefined ==
    Len(data) = 0 =>
        \A metric \in {"resolutionTime", "severityRating"} : \A f \in BoundFields :
            ~IsNaN(calculateOutliers(data, stdDevThreshold)[metric][f])

MissingKeyText ==
    "API key not found. Please set REACT_APP_GROK_API_KEY in your .env or .env.local file."

\* the last step ended an invocation that started with flagged records
EndedInvocation ==
    \/ lastOp.op = "runAIAnalysis" /\ lastOp.note = "no key"
    \/ lastOp.op = "fetchSettles" /\ lastOp.note # "ok"
    \/ lastOp.op = "jsonSettles"

Opposite(direction) == IF direction = "asc" THEN "desc" ELSE "asc"

\* a step of the sort configuration as the claim has it
SortStep ==
    /\ sortConfig' # sortConfig =>
          /\ sortConfig'.key \in ViewSortKeys
          /\ sortConfig'.direction =
                IF sortConfig'.key = sortConfig.key
                THEN Opposite(sortConfig.direction)
                ELSE "asc"
    /\ sortConfig.key # NULL => sortConfig'.key # NULL

\* C18: the sort configuration starts at (null, asc); a click on the header
\* of the current key turns asc into desc and desc into asc; a click on
\* the header of another key gives that key with asc whatever the
\* direction was; once a key is selected the key is never null again.
C18_SortStateMachine ==
    /\ sortConfig = [key |-> NULL, direction |-> "asc"]
    /\ [][SortStep]_vars

\* the text column is sorted descending: its header was clicked twice
C18_Witness ==
    /\ sortConfig = [key |-> "defectName", direction |-> "desc"]
    /\ lastOp.op = "view"

\* the natural order of the values of a sort key of the session: the
\* numbers by size, the two defect names by the alphabet
Precedes(a, b, key) ==
    IF key = "severityRating" THEN a.severityRating < b.severityRating
    ELSE a.defectName = "Misalignment" /\ b.defectName = "Paint Defect"

\* C19: with a sort key the view is a permutation of the records that pass
\* the filters, non-decreasing by the key for asc and non-increasing for
\* desc, records equal on the key in record-set order; without a key the
\* view is in record-set order; the record set keeps its order.
C19_SortedView ==
    LET view == View
        key  == sortConfig.key
    IN  /\ \A i \in 1..Len(data) :
              Passes(data[i]) <=> \E p \in 1..Len(view) : view[p] = data[i]
        /\ \A p, r \in 1..Len(view) : view[p].id = view[r].id => p = r
        /\ \A p \in 1..Len(view) : \E i \in 1..Len(data) : view[p] = data[i]
        /\ key = NULL =>
              \A p, r \in 1..Len(view) : p < r => view[p].id < view[r].id
        /\ key # NULL =>
              \A p, r \in 1..Len(view) : p < r =>
                  /\ sortConfig.direction = "asc" => ~Precedes(view[r], view[p], key)
                  /\ sortConfig.direction = "desc" => ~Precedes(view[p], view[r], key)
                  /\ (~Precedes(view[p], view[r], key) /\ ~Precedes(view[r], view[p], key))
                        => view[p].id < view[r].id
        /\ \A i \in 1..Len(data) : data[i].id = created[i].id /\ data[i].id = i

\* the view sorted descending by severity: the two critical records, in
\* the order of the record set, before the cosmetic record, the first of
\* the set
C19_Witness ==
    /\ sortConfig = [key |-> "severityRating", direction |-> "desc"]
    /\ lastOp.op = "view"
    /\ Len(View) = 3
    /\ View[1].id = 2 /\ View[2].id = 3 /\ View[3].id = 1
    /\ View[1].severityRating = View[2].severityRating
    /\ View[2].severityRating > View[3].severityRating

(***************************************************************************)
(* The top-N selections.                                                   *)
(***************************************************************************)
\* the position of the first record with a defect name
FirstSeen(name) ==
    CHOOSE i \in 1..Len(data) :
        /\ data[i].defectName = name
        /\ \A j \in 1..(i - 1) : data[j].defectName # name

\* a name comes before another in a selection by count: more records, or
\* as many and seen first
Before(a, b) ==
    \/ CountOfDefect(data, a) > CountOfDefect(data, b)
    \/ CountOfDefect(data, a) = CountOfDefect(data, b) /\ FirstSeen(a) < FirstSeen(b)

\* the defect names of the record set
NamesOf(recs) == {recs[i].defectName : i \in 1..Len(recs)}

\* a list of names is the selection of the n first names by count
IsTopN(list, n) ==
    /\ Len(list) = IF Cardinality(NamesOf(data)) < n THEN Cardinality(NamesOf(data)) ELSE n
    /\ \A p \in 1..Len(list) : list[p] \in NamesOf(data)
    /\ \A p, r \in 1..Len(list) : p < r => Before(list[p], list[r])
    /\ \A name \in NamesOf(data) \ {list[p] : p \in 1..Len(list)} :
          \A p \in 1..Len(list) : Before(list[p], name)

\* C20: top5Defects (N = 5), the heatmap's topDefects (N = 6) and the
\* default target of the explorer (N = 1) are the names with the N highest
\* counts in descending order of count, names of equal count in the order
\* first seen; top5Defects carries the counts.
C20_TopNSelections ==
    LET top5 == analytics(data).top5Defects
    IN  /\ IsTopN([p \in 1..Len(top5) |-> top5[p][1]], 5)
        /\ \A p \in 1..Len(top5) : top5[p][2] = CountOfDefect(data, top5[p][1])
        /\ IsTopN(heatmap(data).topDefects, 6)
        /\ selectedDefect = NULL =>
              IsTopN(<<recurrenceExplorer(data, selectedDefect).target>>, 1)

\* six names, the most frequent not the first seen, the five others with
\* one record each, so that the sixth is cut off the top five by the order
\* first seen alone; no defect is selected after one had been
C20_Witness ==
    LET top5 == analytics(data).top5Defects
    IN  /\ Cardinality(NamesOf(data)) = 6
        /\ top5[1][2] = 2 /\ top5[1][1] # data[1].defectName
        /\ top5[2][1] = data[1].defectName
        /\ top5[5][2] = 1
        /\ selectedDefect = NULL /\ lastOp.op = "view"
        /\ recurrenceExplorer(data, selectedDefect).target = top5[1][1]

(***************************************************************************)
(* The rows of the heatmap.                                                *)
(***************************************************************************)
\* the largest count of a non-empty list of rows
MaxCountOf(rows) ==
    CHOOSE m \in {rows[p].count : p \in 1..Len(rows)} :
        \A p \in 1..Len(rows) : rows[p].count <= m

\* C21: the heatmap rows are exactly one row for every combination of a
\* defect of topDefects, a station of the record set and a shift of the
\* record set, combinations without records included, and no other row;
\* maxCount is the largest count of a row, or 1 when every count is 0.
C21_HeatmapRows ==
    LET h      == heatmap(data)
        combos == { <<h.topDefects[t], data[i].station, data[j].productionShift>> :
                      t \in 1..Len(h.topDefects), i \in 1..Len(data), j \in 1..Len(data) }
        keyAt(p) == <<h.rows[p].defectName, h.rows[p].station, h.rows[p].shift>>
    IN  /\ {keyAt(p) : p \in 1..Len(h.rows)} = combos
        /\ Len(h.rows) = Cardinality(combos)
        /\ h.maxCount = IF \A p \in 1..Len(h.rows) : h.rows[p].count = 0
                        THEN 1 ELSE MaxCountOf(h.rows)

\* seven defect names of which the seventh is left out of the top six; its
\* station and its shift are of no other record, so that every row of that
\* station has count 0, and a cell holds two records
C21_Witness ==
    LET h == heatmap(data)
    IN  /\ Cardinality(NamesOf(data)) = 7
        /\ Len(h.topDefects) = 6 /\ Len(h.stations) = 3 /\ Len(h.shifts) = 3
        /\ Len(h.rows) = 54
        /\ \A p \in 1..Len(h.rows) :
              h.rows[p].station = "Quality Gate" => h.rows[p].count = 0
        /\ h.maxCount = 2

(***************************************************************************)
(* The two views of the triads.                                            *)
(***************************************************************************)
\* the (defectName, station, partOfCar) of a record or of an aggregate
TriadOf(r) == <<r.defectName, r.station, r.partOfCar>>

\* the position of the first record of a triad
FirstSeenTriad(t) ==
    CHOOSE i \in 1..Len(data) :
        /\ TriadOf(data[i]) = t
        /\ \A j \in 1..(i - 1) : TriadOf(data[j]) # t

\* a list of aggregates is in non-increasing order of a field, aggregates of
\* equal value in the order in which their triads were first seen
IsStableDescending(list, field) ==
    \A i, j \in 1..Len(list) : i < j =>
        \/ list[i][field] > list[j][field]
        \/ /\ list[i][field] = list[j][field]
           /\ FirstSeenTriad(TriadOf(list[i])) < FirstSeenTriad(TriadOf(list[j]))

\* C22: triads.byCount and triads.byScore hold the same aggregates, one per
\* distinct (defectName, station, partOfCar) of the record set with the
\* number of its records; byCount is in non-increasing order of count and
\* byScore in non-increasing order of score, and in both aggregates of equal
\* value keep the order in which their triads were first seen.
C22_TriadViews ==
    LET t      == triads(data)
        keys   == {TriadOf(data[i]) : i \in 1..Len(data)}
        setOf(list) == {list[i] : i \in 1..Len(list)}
    IN  /\ setOf(t.byCount) = setOf(t.byScore)
        /\ Len(t.byCount) = Cardinality(keys) /\ Len(t.byScore) = Cardinality(keys)
        /\ {TriadOf(r) : r \in setOf(t.byCount)} = keys
        /\ \A r \in setOf(t.byCount) :
              r.count = Cardinality({i \in 1..Len(data) : TriadOf(data[i]) = TriadOf(r)})
        /\ IsStableDescending(t.byCount, "count")
        /\ IsStableDescending(t.byScore, "score")

\* three triads or more in two different orders: two of equal count whose
\* scores are in the other order, and two of equal score
C22_Witness ==
    LET t == triads(data)
    IN  /\ Len(t.byCount) >= 3
        /\ t.byCount # t.byScore
        /\ \E i, j \in 1..Len(t.byCount) :
              /\ i < j /\ t.byCount[i].count = t.byCount[j].count
              /\ t.byCount[i].score < t.byCount[j].score
        /\ \E i, j \in 1..Len(t.byScore) :
              /\ i < j /\ t.byScore[i].score = t.byScore[j].score
              /\ TriadOf(t.byScore[i]) # TriadOf(t.byScore[j])
        /\ \E i \in 1..Len(t.byCount) : t.byCount[i].count >= 2

(***************************************************************************)
(* The shift deltas of the explorer.                                       *)
(***************************************************************************)
\* the number of records of a defect in a shift
CountInShift(recs, name, sh) ==
    Cardinality({i \in 1..Len(recs) :
                    recs[i].defectName = name /\ recs[i].productionShift = sh})

\* C23: for every explorer result, deltas holds exactly the 6 ordered pairs
\* of distinct shifts among Morning, Afternoon and Night, each with
\* deltaCount = count(to) - count(from), in non-increasing order of
\* |deltaCount|; the deltaCount values sum to 0 and every pair stands with
\* its reverse of opposite sign.
C23_ShiftDeltas ==
    LET e      == recurrenceExplorer(data, selectedDefect)
        Shifts == {"Morning", "Afternoon", "Night"}
    IN  e.target # NULL =>
            /\ Len(e.deltas) = 6
            /\ {e.deltas[i].pair : i \in 1..6} =
                  {<<a, b>> : a, b \in Shifts} \ {<<a, a>> : a \in Shifts}
            /\ \A i \in 1..6 :
                  e.deltas[i].deltaCount =
                      CountInShift(data, e.target, e.deltas[i].pair[2])
                        - CountInShift(data, e.target, e.deltas[i].pair[1])
            /\ \A i, j \in 1..6 :
                  i < j => abs(e.deltas[i].deltaCount) >= abs(e.deltas[j].deltaCount)
            /\ SumField(e.deltas, "deltaCount") = 0
            /\ \A i \in 1..6 : \E j \in 1..6 :
                  /\ e.deltas[j].pair = <<e.deltas[i].pair[2], e.deltas[i].pair[1]>>
                  /\ e.deltas[j].deltaCount = 0 - e.deltas[i].deltaCount

\* a selected defect with two records in one shift, one in another and
\* none in the third: deltas of magnitude 2, 1 and 1, each twice
C23_Witness ==
    LET e == recurrenceExplorer(data, selectedDefect)
    IN  /\ selectedDefect # NULL /\ lastOp.op = "view"
        /\ abs(e.deltas[1].deltaCount) = 2 /\ abs(e.deltas[2].deltaCount) = 2
        /\ abs(e.deltas[3].deltaCount) = 1 /\ abs(e.deltas[6].deltaCount) = 1
        /\ e.deltas[1].deltaCount # e.deltas[2].deltaCount

(***************************************************************************)
(* The quick actions.                                                      *)
(***************************************************************************)
\* the station x shift and the station x part groups of a defect, each as
\* <<dimension, station, value>>
GroupsOfTarget(recs, name) ==
    UNION { { <<"productionShift", recs[i].station, recs[i].productionShift>>,
              <<"partOfCar", recs[i].station, recs[i].partOfCar>> } :
            i \in {i \in 1..Len(recs) : recs[i].defectName = name} }

\* the records of a group
MembersOf(recs, name, g) ==
    SelectSeq(recs, LAMBDA d : d.defectName = name /\ d.station = g[2] /\ d[g[1]] = g[3])

\* count * (0.6 + 0.4 * (avgSev / 10)) + 0.2 * avgResH of a group from its
\* sums, in hundredths rounded once (times in tenths of an hour)
GroupScore(members) ==
    LET c      == Len(members)
        sumSev == SumSeq([i \in 1..c |-> members[i].severityRating])
        sumRes == SumSeq([i \in 1..c |-> members[i].resolutionTime])
    IN  toFixed2(30 * c * c + 2 * sumSev * c + sumRes, 50 * c)

\* C24: quickActions is computed for the target the explorer resolved; it
\* returns at most 3 candidates in non-increasing order of score, each the
\* candidate of a (station x shift) or a (station x part) group of the
\* target's records with count >= 1, and no group outside the result has a
\* higher score than a returned one.
C24_QuickActions ==
    LET e      == recurrenceExplorer(data, selectedDefect)
        q      == quickActions(data, e)
        groups == GroupsOfTarget(data, e.target)
        kept   == { g \in groups : \E i \in 1..Len(q) :
                        /\ q[i].filter = <<e.target, g[2], g[3]>>
                        /\ q[i].count = Len(MembersOf(data, e.target, g))
                        /\ q[i].score = GroupScore(MembersOf(data, e.target, g)) }
    IN  e.target # NULL =>
            /\ Len(q) = IF Cardinality(groups) < 3 THEN Cardinality(groups) ELSE 3
            /\ Cardinality(kept) = Len(q)
            /\ \A i \in 1..Len(q) : q[i].count >= 1
            /\ \A i, j \in 1..Len(q) : i < j => q[i].score >= q[j].score
            /\ \A g \in groups \ kept : \A i \in 1..Len(q) :
                  GroupScore(MembersOf(data, e.target, g)) <= q[i].score

\* a selected defect that is not the most frequent one, with four groups or
\* more: three candidates are returned, of both kinds and of different
\* scores, and one group at least is left out
C24_Witness ==
    LET e == recurrenceExplorer(data, selectedDefect)
        q == quickActions(data, e)
    IN  /\ selectedDefect # NULL /\ lastOp.op = "view"
        /\ selectedDefect # defaultTarget(data)
        /\ Cardinality(GroupsOfTarget(data, e.target)) >= 4
        /\ Len(q) = 3
        /\ q[1].score > q[3].score
        /\ \E i, j \in 1..3 :
              /\ q[i].label[2] \in {"Morning", "Afternoon", "Night"}
              /\ q[j].label[2] \notin {"Morning", "Afternoon", "Night"}

(***************************************************************************)
(* The precision of the scores.                                            *)
(***************************************************************************)
\* the score formula of the quick actions (App.tsx:487-489) on the sums of
\* an aggregate: the unrounded averages, the result rounded once
ScoreOfSums(row) ==
    toFixed2(30 * row.count * row.count + 2 * row.sumSeverity * row.count + row.sumResH,
             50 * row.count)

\* C25: the score of a triad is computed from the full-precision averages
\* of its group: it equals the score formula of the quick actions applied
\* to the unrounded averages and rounded once.
C25_ScoreFromFullPrecision ==
    LET rows == triads(data).byScore
    IN  \A i \in 1..Len(rows) : rows[i].score = ScoreOfSums(rows[i])

(***************************************************************************)
(* Overlapping invocations of the AI analysis.                             *)
(***************************************************************************)
\* the texts aiAnalysis holds before an invocation has completed
Unfinished == {"", "Analyzing..."}

\* a step of the session as the claim has it: the step of a click on the
\* button, of an invocation going on after an await, or of a flag button
OverlapStep ==
    /\ lastOp'.op \in {"runAIAnalysis", "fetchSettles", "jsonSettles"} => data' = data
    /\ lastOp'.op = "runAIAnalysis" /\ lastOp'.note = "sent" =>
          /\ aiCalls' = aiCalls \cup {[id |-> nextCall, prompt |-> flaggedIds(data),
                                        pc |-> "fetch"]}
          /\ aiAnalysis'.text = "Analyzing..."
    /\ lastOp'.op = "runAIAnalysis" /\ lastOp'.note # "sent" =>
          aiCalls' = aiCalls /\ aiAnalysis'.text \notin Unfinished
    /\ lastOp'.op \in {"fetchSettles", "jsonSettles"} =>
          \E c \in aiCalls :
              /\ c.id = lastOp'.id
              /\ \/ /\ aiCalls' = (aiCalls \ {c}) \cup {[c EXCEPT !.pc = "json"]}
                    /\ lastOp'.op = "fetchSettles" /\ lastOp'.note = "ok"
                    /\ aiAnalysis' = aiAnalysis
                 \/ /\ aiCalls' = aiCalls \ {c}
                    /\ aiAnalysis'.text \notin Unfinished
                    /\ lastOp'.note = "content" =>
                          aiAnalysis' = Message("", "content", c.prompt)
                    /\ lastOp'.note # "content" => aiAnalysis'.prompt = {}
    /\ lastOp'.op = "handleFlag" => aiCalls' = aiCalls /\ aiAnalysis' = aiAnalysis

\* C26: runAIAnalysis has no mutual exclusion: an invocation starts
\* whatever the pending ones; it works on the records flagged when it
\* started; each completing invocation overwrites aiAnalysis with its
\* outcome, so that once no invocation is pending aiAnalysis holds the
\* outcome of the one that completed last and not "Analyzing..."; no
\* invocation changes the record set.
C26_OverlappingInvocations ==
    /\ [](nextCall <= MaxCalls => ENABLED runAIAnalysis)
    /\ [](aiCalls = {} /\ nextCall > 1 => aiAnalysis.text \notin Unfinished)
    /\ [][OverlapStep]_vars

\* two requests were sent, the second while the first was pending; the
\* flags were changed since the first started; the second completed, then
\* the first: aiAnalysis is the content answering the records flagged when
\* the first started
C26_Witness ==
    /\ lastOp.op = "jsonSettles" /\ lastOp.id = 1 /\ lastOp.note = "content"
    /\ nextCall = 3 /\ requestsSent = 2 /\ aiCalls = {}
    /\ aiAnalysis = Message("", "content", {1})
    /\ flaggedIds(data) = {2}

(***************************************************************************)
(* The reasons of the outlier table.                                       *)
(***************************************************************************)
\* the codes of a list of reasons
CodesOf(list) == {list[i] : i \in 1..Len(list)}

\* the codes whose condition holds for a record, the bounds restated on
\* integers as for the outlier predicate
ExpectedCodes(recs, k, r) ==
    {c \in {"High Res Time"} : AboveUpper(recs, "resolutionTime", k, r.resolutionTime)}
    \cup {c \in {"Low Res Time"} : BelowLower(recs, "resolutionTime", k, r.resolutionTime)}
    \cup {c \in {"Critical Severity"} : r.severityRating >= 8}
    \cup {c \in {"High Severity"} : AboveUpper(recs, "severityRating", k, r.severityRating)}

\* C27: for every record shown as an outlier the list of reasons is not
\* empty and holds exactly the codes whose condition holds: "High Res Time"
\* iff resolutionTime > upper bound, "Low Res Time" iff resolutionTime <
\* lower bound, "Critical Severity" iff severityRating >= 8, "High Severity"
\* iff severityRating > upper severity bound; the list of a record is not
\* empty if and only if isOutlier holds for it.
C27_OutlierReasons ==
    LET o     == calculateOutliers(data, stdDevThreshold)
        shown == outlierRows(data, o)
    IN  /\ \A i \in 1..Len(shown) :
              LET list == reasons(shown[i], o)
              IN  /\ list # <<>>
                  /\ Len(list) = Cardinality(CodesOf(list))
                  /\ CodesOf(list) = ExpectedCodes(data, stdDevThreshold, shown[i])
        /\ \A i \in 1..Len(data) :
              reasons(data[i], o) # <<>> <=> isOutlier(data[i], o)

\* after a move of the slider the table shows a record with the two
\* severity codes and a record below the static threshold with a code of
\* the resolution time alone, and a record of the set is not shown
C27_Witness ==
    LET o     == calculateOutliers(data, stdDevThreshold)
        shown == outlierRows(data, o)
    IN  /\ lastOp.op = "view" /\ stdDevThreshold # 4
        /\ Len(shown) < Len(data)
        /\ \E i, j \in 1..Len(shown) :
              /\ {"Critical Severity", "High Severity"} \subseteq CodesOf(reasons(shown[i], o))
              /\ CodesOf(reasons(shown[j], o)) \in {{"High Res Time"}, {"Low Res Time"}}

(***************************************************************************)
(* The composed filter strings.                                            *)
(***************************************************************************)
\* the records a search for a text gives, the other controls as they stand
Found(term) ==
    filtered(data, term, showOutliersOnly, sortConfig,
             calculateOutliers(data, stdDevThreshold))

\* every record of the set with a property is among the records found
FindsAll(found, Wanted(_)) ==
    /\ found # <<>>
    /\ \A i \in 1..Len(data) :
          Wanted(data[i]) => \E j \in 1..Len(found) : found[j] = data[i]

\* C28: a composed filter string works as a search term: for every
\* quick-action candidate the search for its filter string gives every
\* record of the target defect with the candidate's two dimension values,
\* so a non-empty result; likewise the search for the strings of the
\* buttons "+ Top Station" and "+ Top Part" of the explorer.
C28_ComposedFilterFinds ==
    LET e == recurrenceExplorer(data, selectedDefect)
        q == quickActions(data, e)
    IN  e.target # NULL =>
            /\ \A i \in 1..Len(q) :
                  FindsAll(Found(filterString(q[i].filter)),
                           LAMBDA d : /\ d.defectName = e.target
                                      /\ d.station = q[i].label[1]
                                      /\ q[i].label[2] \in {d.productionShift, d.partOfCar})
            /\ FindsAll(Found(filterString(<<e.target, e.topStations[1].name>>)),
                        LAMBDA d : d.defectName = e.target
                                     /\ d.station = e.topStations[1].name)
            /\ FindsAll(Found(filterString(<<e.target, e.topParts[1].name>>)),
                        LAMBDA d : d.defectName = e.target
                                     /\ d.partOfCar = e.topParts[1].name)

=============================================================================
